---- MODULE Spec2Model ----
(***************************************************************************)
(* A model of the registry document builders of DaCHS (gavo.registry):     *)
(* builders.py (resource and OAI envelope documents), capabilities.py      *)
(* (capability and interface elements), model.py (element types and their  *)
(* emptiness predicates), nonservice.py and common.py.                     *)
(*                                                                         *)
(* Element trees are records [tag, attrs, text, kids]; attrs is a set of   *)
(* <<name, value>> pairs holding the attributes that are not None.         *)
(***************************************************************************)
EXTENDS Integers, Sequences, FiniteSets, TLC

None == "None"

(***************************************************************************)
(* Bounds of the model.                                                    *)
(***************************************************************************)
MaxList == 3

MaxMirrors == 1

\* the RDs in a list updateServiceList is given
MaxRDs == 2

\* the time up to which calls of updateServiceList begin
MaxClock == 7

MaxPubs == 2

(***************************************************************************)
(* Generic helpers.                                                        *)
(***************************************************************************)
RECURSIVE Flatten(_)
Flatten(seqs) ==
  IF seqs = <<>> THEN <<>> ELSE Head(seqs) \o Flatten(Tail(seqs))

RECURSIVE Join(_)
Join(tokens) ==
  IF tokens = <<>> THEN "" ELSE Head(tokens) \o Join(Tail(tokens))

SeqFilter(s, Test(_)) == SelectSeq(s, Test)

Range(s) == {s[i] : i \in DOMAIN s}

(***************************************************************************)
(* The element primitive (gavo.utils.stanxml.Element), from its contract:  *)
(* an element has a type, attributes, text and ordered children; None and  *)
(* empty entries are flattened out of what is added to it.                 *)
(***************************************************************************)
Whitespace == {"", " "}

strip(text) == IF text \in Whitespace THEN "" ELSE text

\* model.py: the element types declared with _mayBeEmpty = True
mayBeEmpty == {"OAI.request", "OAI.ListSets", "OAI.error", "TR.uploadMethod"}

HasAttr(node, name) == \E a \in node.attrs : a[1] = name

AttrOf(node, name) ==
  IF HasAttr(node, name)
    THEN (CHOOSE a \in node.attrs : a[1] = name)[2]
    ELSE None

\* VOR.relationship.isEmpty: empty unless there is a relatedResource child
VOR_relationship_isEmpty(node) ==
  ~ \E i \in DOMAIN node.kids : node.kids[i].tag = "VOR.relatedResource"

\* a security method that is never taken for empty
securityMethodNeverEmpty(node) == FALSE

\* VOR.securityMethod.isEmpty: empty iff standardId is None
VOR_securityMethod_isEmpty(node) ==
  AttrOf(node, "standardId") = None

RECURSIVE isEmpty(_)

\* Element.isEmpty: no text content and no non-empty children
Element_isEmpty(node) ==
  /\ node.tag \notin mayBeEmpty
  /\ strip(node.text) = ""
  /\ \A i \in DOMAIN node.kids : isEmpty(node.kids[i])

\* the emptiness predicate of the element's type
isEmpty(node) ==
  CASE node.tag = "VOR.relationship" -> VOR_relationship_isEmpty(node)
    [] node.tag = "VOR.securityMethod" -> VOR_securityMethod_isEmpty(node)
    [] OTHER -> Element_isEmpty(node)

\* model.py: the attribute defaults (_a_standardID, _a_role, _a_xsi_type)
\* the element classes declare
DefaultAttrs(tag) ==
  CASE tag = "SIA.capability" ->
         {<<"standardID", "ivo://ivoa.net/std/SIA">>,
          <<"xsi_type", "sia:SimpleImageAccess">>}
    [] tag = "SIA.capability2" ->
         {<<"standardID", "ivo://ivoa.net/std/SIA#query-2.0">>,
          <<"xsi_type", "sia:SimpleImageAccess">>}
    [] tag = "SCS.capability" ->
         {<<"standardID", "ivo://ivoa.net/std/ConeSearch">>,
          <<"xsi_type", "cs:ConeSearch">>}
    [] tag = "SSAP.capability" ->
         {<<"standardID", "ivo://ivoa.net/std/SSA">>,
          <<"xsi_type", "ssap:SimpleSpectralAccess">>}
    [] tag = "SLAP.capability" ->
         {<<"standardID", "ivo://ivoa.net/std/SLAP">>,
          <<"xsi_type", "slap:SimpleLineAccess">>}
    [] tag = "TR.capability" ->
         {<<"standardID", "ivo://ivoa.net/std/TAP">>,
          <<"xsi_type", "tr:TableAccess">>}
    [] tag = "VOG.capability" ->
         {<<"standardID", "ivo://ivoa.net/std/Registry">>}
    [] tag = "VOG.Harvest" ->
         {<<"standardID", "ivo://ivoa.net/std/Registry">>,
          <<"xsi_type", "vg:Harvest">>}
    [] tag = "DOC.capability" -> {<<"xsi_type", "doc:Edition">>}
    [] tag = "DatalinkCapabilityMaker.capabilityClass" ->
         {<<"standardID", "ivo://ivoa.net/std/DataLink#links-1.1">>}
    [] tag = "SODACapabilityMaker.capabilityClass" ->
         {<<"standardID", "ivo://ivoa.net/std/SODA#sync-1.0">>}
    [] tag = "SODAAsyncCapabilityMaker.capabilityClass" ->
         {<<"standardID", "ivo://ivoa.net/std/SODA#async-1.0">>}
    [] tag \in {"SIA.interface", "SCS.interface", "SSAP.interface",
                "SLAP.interface", "TR.interface"} ->
         {<<"role", "std">>, <<"xsi_type", "vs:ParamHTTP">>}
    [] tag = "StandardParamHTTP" ->
         {<<"role", "std">>, <<"xsi_type", "vs:ParamHTTP">>}
    [] tag = "VS.ParamHTTP" -> {<<"xsi_type", "vs:ParamHTTP">>}
    [] tag = "DaFut.daliInterface" ->
         {<<"role", "std">>, <<"xsi_type", "dachs:DALIInterface">>}
    [] tag = "VOR.WebBrowser" -> {<<"xsi_type", "vr:WebBrowser">>}
    [] tag = "VOR.WebService" -> {<<"xsi_type", "vr:WebService">>}
    [] tag = "VOG.OAIHTTP" -> {<<"xsi_type", "vg:OAIHTTP">>}
    [] tag = "VOR.Organisation" -> {<<"xsi_type", "vr:Organisation">>}
    [] tag = "VOG.Resource" -> {<<"xsi_type", "vg:Registry">>}
    [] tag = "VOG.Authority" -> {<<"xsi_type", "vg:Authority">>}
    [] tag = "VS.DataService" -> {<<"xsi_type", "vs:DataService">>}
    [] tag = "VS.CatalogService" -> {<<"xsi_type", "vs:CatalogService">>}
    [] tag = "VS.CatalogResource" -> {<<"xsi_type", "vs:CatalogResource">>}
    [] tag = "VSTD.Standard" -> {<<"xsi_type", "vstd:Standard">>}
    [] tag = "DOC.Document" -> {<<"xsi_type", "doc:Document">>}
    [] OTHER -> {}

\* Element(): a fresh element of a type that declares no attribute defaults
El(tag) == [tag |-> tag, attrs |-> {}, text |-> "", kids |-> <<>>]

\* Element(): a fresh element of a capability, interface or resource type
Cls(tag) == [tag |-> tag, attrs |-> DefaultAttrs(tag), text |-> "", kids |-> <<>>]

\* one keyword argument of Element.__call__; a None value sets nothing
Attr(name, value) == IF value = None THEN {} ELSE {<<name, value>>}

\* Element.__call__(**kw)
WithAttrs(node, newAttrs) ==
  [node EXCEPT !.attrs =
    {a \in node.attrs : ~ \E b \in newAttrs : b[1] = a[1]} \cup newAttrs]

\* Element.__getitem__ with a string (None adds nothing)
WithText(node, text) ==
  IF text = None THEN node ELSE [node EXCEPT !.text = text]

\* Element.__getitem__ with a (flattened) sequence of elements
WithKids(node, newKids) ==
  [node EXCEPT !.kids = node.kids \o SelectSeq(newKids, LAMBDA k : ~ isEmpty(k))]

Leaf(tag, text) == WithText(El(tag), text)


(***************************************************************************)
(* Metadata access (gavo.base.meta, from its contract).  A meta carrier is *)
(* a record with a field meta, a function from the keys that are set to    *)
(* sequences of values [content, meta]; propagation is already resolved.   *)
(***************************************************************************)
NoMeta == <<>>

MetaValue(content) == [content |-> content, meta |-> NoMeta]

MetaValueWith(content, sub) == [content |-> content, meta |-> sub]

iterMeta(carrier, key) ==
  IF key \in DOMAIN carrier.meta THEN carrier.meta[key] ELSE <<>>

hasMeta(carrier, key) == iterMeta(carrier, key) # <<>>

\* base.getMetaText(carrier, key, default): the text of the (first) value
getMetaText(carrier, key, default) ==
  IF hasMeta(carrier, key) THEN iterMeta(carrier, key)[1].content ELSE default

(***************************************************************************)
(* Results of operations that may raise: exc is None or the exception's    *)
(* class, val the value returned (a sequence of elements).                 *)
(***************************************************************************)
Ok(val) == [exc |-> None, val |-> val]

Raise(exc) == [exc |-> exc, val |-> <<>>]

\* the rest of a function body, run on what a call returned unless it raised
Then(result, Rest(_)) ==
  IF result.exc # None THEN result ELSE Rest(result.val)

(***************************************************************************)
(* URLs are sequences of tokens; the string is their concatenation.        *)
(* urllib.parse.urlparse and urlunsplit work on the tokens.                *)
(***************************************************************************)
RECURSIVE IndexOf(_, _, _)
\* the first position >= from of a token of stops in tokens, or Len+1
IndexOf(tokens, stops, from) ==
  IF from > Len(tokens) THEN Len(tokens) + 1
  ELSE IF tokens[from] \in stops THEN from
  ELSE IndexOf(tokens, stops, from + 1)

Before(tokens, stops) == SubSeq(tokens, 1, IndexOf(tokens, stops, 1) - 1)

After(tokens, stops) ==
  SubSeq(tokens, IndexOf(tokens, stops, 1) + 1, Len(tokens))

\* urllib.parse.urlparse -> (scheme, netloc, path, params, query, fragment),
\* rest being what follows the scheme and the netloc
partsOf(scheme, netloc, rest) ==
  [scheme |-> scheme,
   netloc |-> netloc,
   path |-> Before(Before(Before(rest, {"#"}), {"?"}), {";"}),
   params |-> After(Before(Before(rest, {"#"}), {"?"}), {";"}),
   query |-> After(Before(rest, {"#"}), {"?"}),
   fragment |-> After(rest, {"#"})]

urlparse(url) ==
  IF Len(url) >= 3 /\ url[2] = "://"
    THEN partsOf(url[1], url[3], SubSeq(url, 4, Len(url)))
    ELSE partsOf("", "", url)

\* urllib.parse.urlunsplit((scheme, netloc, path, query, fragment)), from
\* the inside out: the path made absolute, then netloc, scheme, query and
\* fragment put around it
absolutePath(netloc, path) ==
  IF netloc # "" /\ path # <<>> /\ path[1] # "/" THEN <<"/">> \o path ELSE path

withNetloc(netloc, url) ==
  IF netloc # "" THEN <<"://", netloc>> \o url ELSE url

withScheme(scheme, netloc, url) ==
  IF scheme = "" THEN url
  ELSE IF netloc # "" THEN <<scheme>> \o url
  ELSE <<scheme, ":">> \o url

withQuery(url, query) ==
  IF query # <<>> THEN url \o <<"?">> \o query ELSE url

withFragment(url, fragment) ==
  IF fragment # <<>> THEN url \o <<"#">> \o fragment ELSE url

urlunsplit(scheme, netloc, path, query, fragment) ==
  withFragment(
    withQuery(
      withScheme(scheme, netloc,
        withNetloc(netloc, absolutePath(netloc, path))),
      query),
    fragment)

(***************************************************************************)
(* Process-wide configuration (base.getConfig, svcs.getVanityMap).         *)
(***************************************************************************)
HTTP_SERVER == "dc.example.org"

\* gavo.base.osinter.switchProtocol: http <-> https on this server's URLs,
\* ValueError for any other URL
switchProtocol(url) ==
  IF Len(url) >= 3 /\ url[2] = "://" /\ url[3] = HTTP_SERVER
       /\ url[1] \in {"http", "https"}
    THEN Ok(<<IF url[1] = "http" THEN "https" ELSE "http">>
              \o SubSeq(url, 2, Len(url)))
    ELSE Raise("ValueError")


VARIABLES
  config,       \* process-wide configuration: [registerAlternative, future]
  VALIDATING,   \* builders.VALIDATING
  hashOrder,    \* the order in which this process iterates a set of tables
  cached,       \* the RDs that have the "cached dependencies" attribute
  queries,      \* per RD, the number of common.getDependencies queries
  loadedRDs,    \* the RDs base.caches.getRD was called for
  cachedAtCall, \* the value of cached when the record builder was called
  theResob,     \* the resource last handed to a record builder
  theSetNames,  \* ... and the set names it was built for
  doc,          \* the result of the build: [exc, val, reports]
  prevDoc,      \* the result of the build before, if of the same input
  theFormat,    \* the metadata prefix of these builds
  resobs,       \* ListRecords: the resources consumed so far
  recs,         \* ListRecords: the OAI.ListRecords element being filled
  errors,       \* ListRecords: what was reported to base.ui.notifyError
  listPc,       \* ListRecords: "idle", "loop" or "done"
  thePub,       \* the publication last handed to a capability/interface maker
  capResult,    \* what getCapabilityElement did with it: [exc, val]
  ifaceResult,  \* what its interface maker did with it: [exc, val]
  theIterator,  \* the row generator of publication.py last run, or None
  keepTimestamp, \* ... and the keepTimestamp it was run with
  rows,         \* what it gave: [exc, val, warnings, reports]
  collected,    \* the rows as they are in list(generator) at its end
  callers,      \* threads in _loadDependencies: per thread [pc, rd, deps]
  update,       \* the call of updateServiceList under way: its frame
  connection,   \* the service tables as the connection of the call sees them
  durable,      \* the service tables as committed
  notified,     \* what the call told base.ui so far: <<kind, sourceId>>
  clock         \* the time of the database and of utcnow()

\* svcs.getVanityMap().longToShort: local paths that have a short alias
longToShort == [p \in {"svc/long/siap.xml"} |-> "alias"]

(***************************************************************************)
(* capabilities.py: interfaces.  An interface maker is a record            *)
(* [interfaceClass, method], method naming the _makeInterface it inherits. *)
(***************************************************************************)
\* tableset.simpleDataTypeFactory and capabilities.getInputParamFromColumn
getInputParamFromColumn(column) ==
  WithAttrs(
    WithKids(El("VS.param"), <<
      Leaf("VS.name", column.name),
      Leaf("VS.description", column.description),
      Leaf("VS.unit", column.unit),
      Leaf("VS.ucd", column.ucd),
      Leaf("VS.dataType", column.type)>>),
    Attr("std", IF column.std THEN "true" ELSE "false"))

\* capabilities.getInputParams
getInputParams(publication, service) ==
  [i \in DOMAIN service.inputKeys |->
    getInputParamFromColumn(service.inputKeys[i])]

localpartOf(path) == IF path = <<>> THEN "" ELSE Join(Tail(path))

\* lines 97-103: a trailing ? or & is kept
appendChar(accessURL) ==
  IF accessURL[Len(accessURL)] \in {"?", "&"}
    THEN <<accessURL[Len(accessURL)]>> ELSE <<>>

\* lines 93-103, parts being urlparse(accessURL) and localpart its path
\* less the leading slash
rewriteURL(accessURL, parts, localpart) ==
  IF localpart \in DOMAIN longToShort
    THEN urlunsplit(parts.scheme, parts.netloc, <<longToShort[localpart]>>,
           parts.params, parts.query) \o appendChar(accessURL)
    ELSE accessURL

rewriteParts(accessURL, parts) ==
  rewriteURL(accessURL, parts, localpartOf(parts.path))

\* the access URL InterfaceMaker._makeInterface emits (lines 89-103)
rewrittenAccessURL(publication) ==
  rewriteParts(publication.accessURL, urlparse(publication.accessURL))

\* all mirror URLs of the publication
allMirrorURLs(publication, accessURL) == publication.mirrorURL

\* the mirror URLs kept by InterfaceMaker._makeInterface (lines 110-112)
keptMirrorURLs(publication, accessURL) ==
  SelectSeq(publication.mirrorURL, LAMBDA v : Join(v) # Join(accessURL))

\* lines 105-113: the interface with its access URL, security method and
\* mirror URLs
interfaceWith(interfaceClass, publication, accessURL, mirrors) ==
  WithKids(Cls(interfaceClass),
    << WithAttrs(Leaf("VOR.accessURL", Join(accessURL)),
         Attr("use", getMetaText(publication, "urlUse", None))),
       WithAttrs(El("VOR.securityMethod"),
         Attr("standardId", getMetaText(publication, "securityId", None))) >>
    \o [i \in DOMAIN mirrors |-> Leaf("VOR.mirrorURL", Join(mirrors[i]))])

\* lines 115-120: the URL with the other protocol, where there is one and
\* it is wanted
withAlternative(interface, switched) ==
  IF config.registerAlternative /\ switched.exc = None
    THEN WithKids(interface, <<Leaf("VOR.mirrorURL", Join(switched.val))>>)
    ELSE interface

\* lines 104-122, accessURL being the rewritten access URL
makeInterfaceAt(interfaceClass, publication, accessURL) ==
  withAlternative(
    interfaceWith(interfaceClass, publication, accessURL,
      keptMirrorURLs(publication, accessURL)),
    switchProtocol(accessURL))

\* InterfaceMaker._makeInterface
InterfaceMaker_makeInterface(interfaceClass, publication) ==
  makeInterfaceAt(interfaceClass, publication, rewrittenAccessURL(publication))

\* InterfaceWithParams._makeInterface
InterfaceWithParams_makeInterface(plain, publication, parent) ==
  WithKids(plain,
    << Leaf("VS.queryType", getMetaText(publication, "requestMethod", None)),
       Leaf("VS.resultType", getMetaText(publication, "resultType", None)) >>
    \o getInputParams(publication, parent))

TAP_VERSION == "1.1"

\* DALIInterface._makeInterface
DALIInterface_makeInterface(plain, publication) ==
  IF publication.render # "dali"
    THEN Raise("NotImplementedError")
    ELSE Ok(<<WithKids(WithAttrs(plain, Attr("version", "1.1")), <<
          WithKids(El("DaFut.endpoint"), <<Leaf("TR.name", "sync")>>),
          WithKids(El("DaFut.endpoint"), <<Leaf("TR.name", "async"),
            WithAttrs(Leaf("DaFut.meta", "dachs"),
              Attr("property", "http://dc.g-vo.org/static/tap-plan"))>>),
          WithKids(El("DaFut.endpoint"), <<Leaf("TR.name", "tables")>>),
          WithKids(El("DaFut.endpoint"), <<Leaf("TR.name", "examples")>>)>>)>>)

IMaker(interfaceClass, method) ==
  [interfaceClass |-> interfaceClass, method |-> method]

\* the InterfaceMaker subclasses that declare a renderer
InterfaceMakers ==
  [r \in {"availability", "capabilities", "tableMetadata", "siap.xml",
          "siap2.xml", "scs.xml", "ssap.xml", "slap.xml", "dlmeta", "dlget",
          "dlasync", "edition", "dali", "examples", "soap", "pubreg.xml",
          "form", "qp", "docform", "fixed", "static", "custom", "volatile",
          "external", "get"} |->
    CASE r \in {"availability", "capabilities", "tableMetadata"} ->
           IMaker("StandardParamHTTP", "InterfaceMaker")
      [] r \in {"siap.xml", "siap2.xml"} -> IMaker("SIA.interface", "InterfaceWithParams")
      [] r = "scs.xml" -> IMaker("SCS.interface", "InterfaceWithParams")
      [] r = "ssap.xml" -> IMaker("SSAP.interface", "InterfaceWithParams")
      [] r = "slap.xml" -> IMaker("SLAP.interface", "InterfaceWithParams")
      [] r = "dlmeta" -> IMaker("StandardParamHTTP", "InterfaceWithParams")
      [] r \in {"dlget", "dlasync"} -> IMaker("StandardParamHTTP", "InterfaceMaker")
      [] r = "edition" -> IMaker("VOR.WebBrowser", "EditionInterface")
      [] r = "dali" -> IMaker("TR.interface", "TAPInterface")
      [] r = "examples" -> IMaker("VOR.WebBrowser", "InterfaceMaker")
      [] r = "soap" -> IMaker("VOR.WebService", "SOAPInterface")
      [] r = "pubreg.xml" -> IMaker("VOG.OAIHTTP", "OAIHTTPInterface")
      [] OTHER -> IMaker("VOR.WebBrowser", "InterfaceMaker")]

TAPInterface == IMaker("TR.interface", "TAPInterface")

DALIInterface == IMaker("DaFut.daliInterface", "DALIInterface")

\* a resolver whose default is the maker of browser interfaces
getBrowserInterfaceMaker(render) ==
  IF render \in DOMAIN InterfaceMakers
    THEN InterfaceMakers[render]
    ELSE IMaker("VOR.WebBrowser", "InterfaceMaker")

\* _getInterfaceMaker: the registered maker, else InterfaceWithParams()
getInterfaceMaker(render) ==
  IF render \in DOMAIN InterfaceMakers
    THEN InterfaceMakers[render]
    ELSE IMaker("VS.ParamHTTP", "InterfaceWithParams")

\* the element types that are interfaces (VOR.interface and its subclasses)
InterfaceClasses ==
  {"VOR.interface", "VOR.WebBrowser", "VOR.WebService", "VS.ParamHTTP",
   "StandardParamHTTP", "SIA.interface", "SCS.interface", "SSAP.interface",
   "SLAP.interface", "TR.interface", "VOG.OAIHTTP", "DaFut.daliInterface"}

\* what the subclasses add to the element InterfaceMaker._makeInterface made
\* (InterfaceWithParams, EditionInterface, TAPInterface, SOAPInterface,
\* OAIHTTPInterface, DALIInterface)
extendInterface(method, plain, publication, parent) ==
  CASE method = "InterfaceMaker" -> Ok(<<plain>>)
    [] method = "InterfaceWithParams" ->
         Ok(<<InterfaceWithParams_makeInterface(plain, publication, parent)>>)
    [] method = "EditionInterface" ->
         Ok(<<WithAttrs(plain, Attr("role", "rendered"))>>)
    [] method = "TAPInterface" ->
         Ok(<<WithAttrs(plain, Attr("version", TAP_VERSION))>>)
    [] method = "SOAPInterface" ->
         Ok(<<WithKids(plain, <<Leaf("VOR.wsdlURL",
                Join(publication.accessURL) \o "?wsdl")>>)>>)
    [] method = "OAIHTTPInterface" ->
         Ok(<<WithAttrs(plain, Attr("role", "std"))>>)
    [] method = "DALIInterface" ->
         DALIInterface_makeInterface(plain, publication)

\* InterfaceMaker.__call__: the maker's _makeInterface
callInterfaceMaker(maker, publication, parent) ==
  extendInterface(maker.method,
    InterfaceMaker_makeInterface(maker.interfaceClass, publication),
    publication, parent)


(***************************************************************************)
(* capabilities.py: capabilities.  A capability maker is a record          *)
(* [capabilityClass, auxiliaryId, method, standardId], method naming the   *)
(* _makeCapability it inherits.                                            *)
(***************************************************************************)
CMaker(capabilityClass, auxiliaryId, method, standardId) ==
  [capabilityClass |-> capabilityClass, auxiliaryId |-> auxiliaryId,
   method |-> method, standardId |-> standardId]

\* the base class, CapabilityMaker()
CapabilityMaker == CMaker("VOR.capability", None, "CapabilityMaker", None)

\* the CapabilityMaker subclasses that declare a renderer
CapabilityMakers ==
  [r \in {"api", "siap.xml", "siap2.xml", "scs.xml", "ssap.xml", "slap.xml",
          "dali", "pubreg.xml", "availability", "capabilities",
          "tableMetadata", "examples", "hips", "soap", "form", "qp",
          "external", "static", "volatile", "custom", "img.jpeg", "fixed",
          "docform", "get", "dlmeta", "dlget", "dlasync", "edition"} |->
    CASE r = "siap.xml" ->
           CMaker("SIA.capability", "ivo://ivoa.net/std/SIA#aux",
             "SIACapabilityMaker", None)
      [] r = "siap2.xml" ->
           CMaker("SIA.capability2", "ivo://ivoa.net/std/SIA#query-aux-2.0",
             "SIACapabilityMaker", None)
      [] r = "scs.xml" ->
           CMaker("SCS.capability", None, "SCSCapabilityMaker", None)
      [] r = "ssap.xml" ->
           CMaker("SSAP.capability", None, "SSACapabilityMaker", None)
      [] r = "slap.xml" ->
           CMaker("SLAP.capability", None, "SLAPCapabilityMaker", None)
      [] r = "dali" ->
           CMaker("TR.capability", "ivo://ivoa.net/std/TAP#aux",
             "TAPCapabilityMaker", None)
      [] r = "pubreg.xml" ->
           CMaker("VOG.Harvest", None, "RegistryCapabilityMaker", None)
      [] r = "availability" ->
           CMaker("VOG.capability", None, "PlainCapabilityMaker",
             "ivo://ivoa.net/std/VOSI#availability")
      [] r = "capabilities" ->
           CMaker("VOG.capability", None, "PlainCapabilityMaker",
             "ivo://ivoa.net/std/VOSI#capabilities")
      [] r = "tableMetadata" ->
           CMaker("VOG.capability", None, "PlainCapabilityMaker",
             "ivo://ivoa.net/std/VOSI#tables")
      [] r = "examples" ->
           CMaker("VOR.capability", None, "PlainCapabilityMaker",
             "ivo://ivoa.net/std/DALI#examples")
      [] r = "hips" ->
           CMaker("VOR.capability", None, "PlainCapabilityMaker",
             "ivo://ivoa.net/std/hips#hips-1.0")
      [] r = "dlmeta" ->
           CMaker("DatalinkCapabilityMaker.capabilityClass", None,
             "CapabilityMaker", None)
      [] r = "dlget" ->
           CMaker("SODACapabilityMaker.capabilityClass", None,
             "CapabilityMaker", None)
      [] r = "dlasync" ->
           CMaker("SODAAsyncCapabilityMaker.capabilityClass", None,
             "CapabilityMaker", None)
      [] r = "edition" ->
           CMaker("DOC.capability", None, "EditionCapabilityMaker", None)
      [] OTHER -> CapabilityMaker]

\* the element types that are capabilities
CapabilityClasses ==
  {"VOR.capability", "SIA.capability", "SIA.capability2", "SCS.capability",
   "SSAP.capability", "SLAP.capability", "TR.capability", "VOG.capability",
   "VOG.Harvest", "DOC.capability", "DatalinkCapabilityMaker.capabilityClass",
   "SODACapabilityMaker.capabilityClass",
   "SODAAsyncCapabilityMaker.capabilityClass"}

\* _getCapabilityMaker: the registered maker; KeyError when there is none
getCapabilityMaker(render) ==
  IF render \in DOMAIN CapabilityMakers
    THEN Ok(<<CapabilityMakers[render]>>)
    ELSE Raise("KeyError")

\* CapabilityMaker._getInterfaceElement
CapabilityMaker_getInterfaceElement(publication, parent) ==
  LET interfaceMaker ==
        IF publication.auxiliary /\ publication.render = "dali"
          THEN TAPInterface
          ELSE getInterfaceMaker(publication.render)
  IN  callInterfaceMaker(interfaceMaker, publication, parent)

\* a TAP capability that has the DALI interface whatever the configuration
TAPCapabilityMaker_bothInterfaces(publication, parent) ==
  Then(callInterfaceMaker(TAPInterface, publication, parent),
    LAMBDA first :
      Then(callInterfaceMaker(DALIInterface, publication, parent),
        LAMBDA second : Ok(first \o second)))

\* TAPCapabilityMaker._getInterfaceElement
TAPCapabilityMaker_getInterfaceElement(publication, parent) ==
  Then(callInterfaceMaker(TAPInterface, publication, parent),
    LAMBDA first :
      IF "dali-interface-in-tap" \in config.future
        THEN Then(callInterfaceMaker(DALIInterface, publication, parent),
               LAMBDA second : Ok(first \o second))
        ELSE Ok(first))

\* self._getInterfaceElement, by the class of the maker
getInterfaceElement(maker, publication, parent) ==
  IF maker.method = "TAPCapabilityMaker"
    THEN TAPCapabilityMaker_getInterfaceElement(publication, parent)
    ELSE CapabilityMaker_getInterfaceElement(publication, parent)

\* CapabilityMaker._makeCapability
CapabilityMaker_makeCapability(maker, publication, parent) ==
  Then(getInterfaceElement(maker, publication, parent),
    LAMBDA interfaces :
      Ok(<<WithKids(Cls(maker.capabilityClass),
          <<Leaf("VOR.description",
              getMetaText(publication, "description", None))>>
          \o interfaces)>>))


\* base.getConfig items the capability makers read (as str() gives them)
dalHardLimit == "10000000"

dalDefaultLimit == "10000"

dalDefaultLimitTimes10 == "100000"

oaipmhPageSize == "500"

\* a child element holding a meta value, or nothing when the key is not set
MetaLeaf(tag, carrier, key, default) ==
  Leaf(tag, getMetaText(carrier, key, default))

\* SIACapabilityMaker._makeCapability
SIACapabilityMaker_makeCapability(maker, publication, parent, made) ==
  LET service == parent
  IN  Then(made,
    LAMBDA base :
      IF ~ hasMeta(service, "sia.type") THEN Raise("NoMetaKey")
      ELSE Ok(<<WithKids(base[1], <<
        MetaLeaf("SIA.imageServiceType", service, "sia.type", None),
        WithKids(El("SIA.maxQueryRegionSize"), <<
          MetaLeaf("SIA.long", service, "sia.maxQueryRegionSize.long", None),
          MetaLeaf("SIA.lat", service, "sia.maxQueryRegionSize.lat", None)>>),
        WithKids(El("SIA.maxImageExtent"), <<
          MetaLeaf("SIA.long", service, "sia.maxImageExtent.long", None),
          MetaLeaf("SIA.lat", service, "sia.maxImageExtent.lat", None)>>),
        MetaLeaf("SIA.maxImageSize", service, "sia.maxImageSize", None),
        MetaLeaf("SIA.maxFileSize", service, "sia.maxFileSize", None),
        MetaLeaf("SIA.maxRecords", service, "sia.maxRecords", dalHardLimit),
        WithKids(El("SIA.testQuery"), <<
          WithKids(El("SIA.pos"), <<
            MetaLeaf("SIA.long", service, "testQuery.pos.ra", None),
            MetaLeaf("SIA.lat", service, "testQuery.pos.dec", None)>>),
          WithKids(El("SIA.size"), <<
            MetaLeaf("SIA.long", service, "testQuery.size.ra", None),
            MetaLeaf("SIA.lat", service, "testQuery.size.dec", None)>>)>>)
        >>)>>))

\* SCSCapabilityMaker._makeCapability
SCSCapabilityMaker_makeCapability(maker, publication, parent, made) ==
  LET service == parent
  IN  Then(made,
    LAMBDA base :
      IF ~ hasMeta(service, "testQuery.ra")
              \/ ~ hasMeta(service, "testQuery.dec") THEN Raise("NoMetaKey")
      ELSE Ok(<<WithKids(base[1], <<
        MetaLeaf("SCS.maxSR", service, "maxSR", "180"),
        Leaf("SCS.maxRecords", dalDefaultLimitTimes10),
        Leaf("SCS.verbosity", "true"),
        WithKids(El("SCS.testQuery"), <<
          MetaLeaf("SCS.ra", service, "testQuery.ra", None),
          MetaLeaf("SCS.dec", service, "testQuery.dec", None),
          MetaLeaf("SCS.sr", service, "testQuery.sr", "0.001")>>)>>)>>))

\* SSACapabilityMaker._makeCapability
SSACapabilityMaker_makeCapability(maker, publication, parent, made) ==
  LET service == parent
  IN  Then(made,
    LAMBDA base :
      IF ~ hasMeta(service, "ssap.dataSource")
              \/ ~ hasMeta(service, "ssap.testQuery") THEN Raise("NoMetaKey")
      ELSE Ok(<<WithKids(base[1], <<
        MetaLeaf("SSAP.complianceLevel", service, "ssap.complianceLevel",
          "minimal"),
        MetaLeaf("SSAP.dataSource", service, "ssap.dataSource", None),
        MetaLeaf("SSAP.creationType", service, "ssap.creationType", "archival"),
        Leaf("SSAP.supportedFrame", "ICRS"),
        Leaf("SSAP.maxSearchRadius", "90"),
        Leaf("SSAP.maxRecords", dalHardLimit),
        Leaf("SSAP.defaultMaxRecords", dalDefaultLimit),
        Leaf("SSAP.maxAperture", "90"),
        WithKids(El("SSAP.testQuery"), <<
          MetaLeaf("SSAP.queryDataCmd", service, "ssap.testQuery", None)>>)
        >>)>>))

\* SLAPCapabilityMaker._makeCapability
SLAPCapabilityMaker_makeCapability(maker, publication, parent, made) ==
  LET service == parent
  IN  Then(made,
    LAMBDA base :
      IF ~ hasMeta(service, "slap.dataSource")
              \/ ~ hasMeta(service, "slap.testQuery") THEN Raise("NoMetaKey")
      ELSE Ok(<<WithKids(base[1], <<
        MetaLeaf("SLAP.complianceLevel", service, "slap.complianceLevel",
          "full"),
        MetaLeaf("SSAP.dataSource", service, "slap.dataSource", None),
        WithKids(El("SSAP.testQuery"), <<
          MetaLeaf("SSAP.queryDataCmd", service, "slap.testQuery", None)>>)
        >>)>>))

\* the rows of tap_schema.supportedmodels, (dmname, dmivorn)
supportedmodels == << <<"Obscore-1.1", "ivo://ivoa.net/std/obscore#core-1.1">> >>

\* ufunctions.UFUNC_REGISTRY, sorted by signature: (signature, doc)
udfs == << <<"gavo_match(pattern TEXT, string TEXT) -> INTEGER", "regexp">>,
           <<"ivo_hashlist_has(hashlist TEXT, item TEXT) -> INTEGER", "has">> >>

featureList(type, forms) ==
  WithKids(WithAttrs(El("TR.languageFeatures"), Attr("type", type)),
    [i \in DOMAIN forms |->
      WithKids(El("TR.feature"), <<Leaf("TR.form", forms[i])>>)])

\* TAPCapabilityMaker._makeCapability
TAPCapabilityMaker_makeCapability(maker, publication, parent, made) ==
  Then(made,
    LAMBDA base :
      Ok(<<WithKids(
        WithKids(base[1],
          [i \in DOMAIN supportedmodels |->
            WithAttrs(Leaf("TR.dataModel", supportedmodels[i][1]),
              Attr("ivoId", supportedmodels[i][2]))]),
        << WithKids(El("TR.language"), <<
             Leaf("TR.name", "ADQL"),
             WithAttrs(Leaf("TR.version", "2.1"),
               Attr("ivoId", "ivo://ivoa.net/std/ADQL#v2.1")),
             Leaf("TR.description", "The Astronomical Data Query Language"),
             WithKids(WithAttrs(El("TR.languageFeatures"),
                 Attr("type", "ivo://ivoa.net/std/TAPRegExt#features-udf")),
               [i \in DOMAIN udfs |->
                 WithKids(El("TR.feature"), <<
                   Leaf("TR.form", udfs[i][1]),
                   Leaf("TR.description", udfs[i][2])>>)]),
             featureList("ivo://ivoa.net/std/TAPRegExt#features-adqlgeo",
               <<"BOX", "POINT", "CIRCLE", "POLYGON", "REGION", "CENTROID",
                 "COORD1", "COORD2", "DISTANCE", "CONTAINS", "INTERSECTS",
                 "AREA">>),
             featureList("ivo://ivoa.net/std/TAPRegExt#features-adql-string",
               <<"LOWER", "ILIKE">>),
             featureList("ivo://ivoa.net/std/TAPRegExt#features-adql-offset",
               <<"OFFSET">>),
             featureList("ivo://ivoa.net/std/TAPRegExt#features-adql-type",
               <<"CAST">>),
             featureList("ivo://ivoa.net/std/TAPRegExt#features-adql-unit",
               <<"IN_UNIT">>),
             featureList(
               "ivo://ivoa.net/std/TAPRegExt#features-adql-common-table",
               <<"WITH">>),
             WithKids(WithAttrs(El("TR.languageFeatures"),
                 Attr("type", "ivo://org.gavo.dc/std/exts#extra-adql-keywords")),
               [i \in 1..5 |->
                 WithKids(El("TR.feature"), <<
                   Leaf("TR.form", <<"TABLESAMPLE", "MOC", "COALESCE",
                     "VECTORMATH", "CASE">>[i]),
                   Leaf("TR.description", "doc")>>)]),
             featureList("ivo://ivoa.net/std/TAPRegExt#features-adql-sets",
               <<"UNION", "EXCEPT", "INTERSECT">>)>>),
           WithKids(WithAttrs(El("TR.outputFormat"),
               Attr("ivoId", "ivo://ivoa.net/std/TAPRegExt#output-votable-td")),
             <<Leaf("TR.mime", "application/x-votable+xml;serialization=tabledata"),
               Leaf("TR.alias", "votable/td")>>),
           WithAttrs(El("TR.uploadMethod"),
             Attr("ivoId", "ivo://ivoa.net/std/TAPRegExt#upload-inline")),
           WithAttrs(El("TR.uploadMethod"),
             Attr("ivoId", "ivo://ivoa.net/std/TAPRegExt#upload-http")),
           WithKids(El("TR.retentionPeriod"), <<Leaf("TR.default", "172800")>>),
           WithKids(El("TR.executionDuration"), <<Leaf("TR.default", "3600")>>),
           WithKids(El("TR.outputLimit"), <<
             WithAttrs(Leaf("TR.default", "20000"), Attr("unit", "row")),
             WithAttrs(Leaf("TR.hard", "20000000"), Attr("unit", "row"))>>),
           WithKids(El("TR.uploadLimit"), <<
             WithAttrs(Leaf("TR.hard", "20000000"), Attr("unit", "byte"))>>)
        >>)>>))

\* RegistryCapabilityMaker._makeCapability
RegistryCapabilityMaker_makeCapability(maker, publication, parent, made) ==
  Then(made,
    LAMBDA base :
      Ok(<<WithKids(base[1],
             <<Leaf("VOG.maxRecords", oaipmhPageSize)>>)>>))

\* PlainCapabilityMaker._makeCapability
PlainCapabilityMaker_makeCapability(maker, publication, parent, made) ==
  Then(made,
    LAMBDA base :
      Ok(<<WithAttrs(base[1], Attr("standardID", maker.standardId))>>))

\* EditionCapabilityMaker._makeCapability
EditionCapabilityMaker_makeCapability(maker, publication, parent, made) ==
  LET sources == iterMeta(publication, "sourceURL")
  IN  Then(made,
    LAMBDA base :
      Ok(<<WithKids(base[1],
        [i \in DOMAIN sources |->
          WithKids(WithAttrs(Cls("VOR.WebBrowser"), Attr("role", "source")),
            <<Leaf("VOR.accessURL", sources[i].content)>>)]
        \o << MetaLeaf("DOC.languageCode", publication, "languageCode", "en"),
              MetaLeaf("DOC.locTitle", publication, "locTitle", None) >>)>>))

\* the _makeCapability of the maker's class; made is what its call of
\* CapabilityMaker._makeCapability(self, publication) returned or raised
makeCapability(maker, publication, parent, made) ==
  CASE maker.method = "CapabilityMaker" -> made
    [] maker.method = "PlainCapabilityMaker" ->
         PlainCapabilityMaker_makeCapability(maker, publication, parent, made)
    [] maker.method = "SIACapabilityMaker" ->
         SIACapabilityMaker_makeCapability(maker, publication, parent, made)
    [] maker.method = "SCSCapabilityMaker" ->
         SCSCapabilityMaker_makeCapability(maker, publication, parent, made)
    [] maker.method = "SSACapabilityMaker" ->
         SSACapabilityMaker_makeCapability(maker, publication, parent, made)
    [] maker.method = "SLAPCapabilityMaker" ->
         SLAPCapabilityMaker_makeCapability(maker, publication, parent, made)
    [] maker.method = "TAPCapabilityMaker" ->
         TAPCapabilityMaker_makeCapability(maker, publication, parent, made)
    [] maker.method = "RegistryCapabilityMaker" ->
         RegistryCapabilityMaker_makeCapability(maker, publication, parent, made)
    [] maker.method = "EditionCapabilityMaker" ->
         EditionCapabilityMaker_makeCapability(maker, publication, parent, made)

\* CapabilityMaker.__call__: the maker's _makeCapability
callCapabilityMaker(maker, publication, parent) ==
  makeCapability(maker, publication, parent,
    CapabilityMaker_makeCapability(maker, publication, parent))

\* an auxiliary capability made whether or not an auxiliaryId is declared
alwaysAuxiliaryCapability(publication, parent) ==
  Then(getCapabilityMaker(publication.render),
    LAMBDA capMaker :
      Then(CapabilityMaker_makeCapability(CapabilityMaker, publication, parent),
        LAMBDA made :
          Ok(<<WithAttrs(made[1],
              Attr("standardID", capMaker[1].auxiliaryId))>>)))

\* an auxiliary capability made by the maker of the renderer itself
fullAuxiliaryCapability(publication, parent) ==
  Then(getCapabilityMaker(publication.render),
    LAMBDA capMaker :
      IF capMaker[1].auxiliaryId = None THEN Ok(<<>>)
      ELSE Then(callCapabilityMaker(capMaker[1], publication, parent),
             LAMBDA made :
               Ok(<<WithAttrs(made[1],
                   Attr("standardID", capMaker[1].auxiliaryId))>>)))

\* getAuxiliaryCapability
getAuxiliaryCapability(publication, parent) ==
  Then(getCapabilityMaker(publication.render),
    LAMBDA capMaker :
      IF capMaker[1].auxiliaryId = None THEN Ok(<<>>)
      ELSE Then(CapabilityMaker_makeCapability(CapabilityMaker, publication,
                  parent),
             LAMBDA made :
               Ok(<<WithAttrs(made[1],
                   Attr("standardID", capMaker[1].auxiliaryId))>>)))

\* getCapabilityElement
getCapabilityElement(publication, parent) ==
  IF publication.auxiliary
    THEN getAuxiliaryCapability(publication, parent)
  ELSE IF publication.render \notin DOMAIN CapabilityMakers
    THEN Raise("ReportableError")
  ELSE callCapabilityMaker(CapabilityMakers[publication.render], publication,
         parent)


(***************************************************************************)
(* The model-based builder (gavo.base.meta.ModelBasedBuilder), from its    *)
(* contract.  A specification node is [key, factory, children, attrs]:     *)
(* key is a meta key or None (a group rule), factory names the node        *)
(* factory, attrs maps attribute names to meta keys of the value.          *)
(***************************************************************************)
N(key, factory, children, attrs) ==
  [key |-> key, factory |-> factory, children |-> children, attrs |-> attrs]

\* meta.stanFactory(tag, **kwargs)
SF(tag) == [kind |-> "SF", tag |-> tag, fixed |-> {}]

SFWith(tag, fixed) == [kind |-> "SF", tag |-> tag, fixed |-> fixed]

\* a factory that is a function of this module
Fn(name) == [kind |-> name, tag |-> None, fixed |-> {}]

\* SF(lambda: VOR.relationship[VOR.relationshipType[term]])
Rel(term) == [kind |-> "relationship", tag |-> term, fixed |-> {}]

\* factory None: the children's items are inlined into the parent
Inline == [kind |-> "inline", tag |-> None, fixed |-> {}]

\* utils.couldBeABibcode, on the source texts of the model
Bibcodes == {"2015A&C....10...88D"}

\* utils.dateRE, on the date texts of the model
DateLike == {"2020-01-01"}

\* the STC-S texts stc.parseSTCS accepts
GoodSTCS == {"Polygon ICRS 0 0 1 0 1 1"}

\* the attributes a factory is called with: the meta keys of attrs that
\* the value has
localAttrsOf(value, attrs) ==
  {<<a[1], getMetaText(value, a[2], None)>> : a \in {b \in attrs : hasMeta(value, b[2])}}

attrOr(localattrs, name, default) ==
  IF \E a \in localattrs : a[1] = name
    THEN (CHOOSE a \in localattrs : a[1] = name)[2]
    ELSE default

\* builders._build_source
build_source(content) ==
  <<WithAttrs(Leaf("VOR.source", content),
      IF content \in Bibcodes THEN {<<"format", "bibcode">>} ELSE {})>>

\* builders._build_dateFromNews
build_dateFromNews(localattrs) ==
  IF attrOr(localattrs, "date", "") \in DateLike
    THEN <<WithAttrs(Leaf("VOR.date", attrOr(localattrs, "date", "")),
             {<<"role", attrOr(localattrs, "role", "updated")>>})>>
    ELSE <<>>

\* builders._stcResourceProfile, what it returns when it returns
stcResourceProfile(content) ==
  IF content \in GoodSTCS
    THEN <<Leaf("STC.STCResourceProfile", content)>>
    ELSE <<>>

\* builders._build_footprintURL; macroPackage is the resource being built
build_footprintURL(macroPackage) ==
  IF macroPackage.cls = "Service"
    THEN <<WithAttrs(Leaf("VS.footprint", macroPackage.coverageURL),
             {<<"ivoId", "ivo://ivoa.net/std/moc">>})>>
    ELSE <<>>

\* calling a node factory with content (text and child nodes) and attributes
callFactory(factory, content, kids, localattrs, macroPackage) ==
  CASE factory.kind = "SF" ->
         <<WithKids(WithText(
             WithAttrs(El(factory.tag), localattrs \cup factory.fixed),
             content), kids)>>
    [] factory.kind = "relationship" ->
         <<WithKids(WithKids(El("VOR.relationship"),
             <<Leaf("VOR.relationshipType", factory.tag)>>), kids)>>
    [] factory.kind = "doi" ->
         <<Leaf("VOR.altIdentifier", "doi:" \o content)>>
    [] factory.kind = "_build_source" -> build_source(content)
    [] factory.kind = "_build_dateFromNews" -> build_dateFromNews(localattrs)
    [] factory.kind = "_stcResourceProfile" -> stcResourceProfile(content)
    [] factory.kind = "_build_footprintURL" -> build_footprintURL(macroPackage)
    [] factory.kind = "inline" -> kids

RECURSIVE ModelBasedBuilder_build(_, _, _)
RECURSIVE itemsForConstructor(_, _, _)

\* the nodes one specification node yields against a meta carrier
itemsForConstructor(item, carrier, macroPackage) ==
  IF item.key = None
    THEN callFactory(item.factory, None,
           ModelBasedBuilder_build(item.children, carrier, macroPackage),
           {}, macroPackage)
    ELSE LET values == iterMeta(carrier, item.key)
         IN  Flatten([i \in DOMAIN values |->
               LET childContent ==
                     ModelBasedBuilder_build(item.children, values[i],
                       macroPackage)
               IN  IF values[i].content = "" /\ childContent = <<>>
                     THEN <<>>
                     ELSE callFactory(item.factory, values[i].content,
                            childContent,
                            localAttrsOf(values[i], item.attrs),
                            macroPackage)])

\* ModelBasedBuilder.build: the nodes of all specification nodes, in the
\* order they are declared
ModelBasedBuilder_build(constructors, carrier, macroPackage) ==
  Flatten([i \in DOMAIN constructors |->
    itemsForConstructor(constructors[i], carrier, macroPackage)])

ivoIdAttr == {<<"ivoId", "ivoId">>}

\* builders.py: the relationship terms of VOResource 1.0, (meta key, term)
oldRelationships ==
  << <<"servedBy", "IsServedBy">>, <<"serviceFor", "IsServiceFor">>,
     <<"derivedFrom", "IsDerivedFrom">>, <<"relatedTo", "related-to">>,
     <<"mirrorOf", "IsIdenticalTo">>, <<"uses", "Cites">> >>

\* builders.py: the relationship terms of VOResource 1.1, with the meta
\* key term[0].lower()+term[1:]
newRelationships ==
  << <<"cites", "Cites">>, <<"isSupplementTo", "IsSupplementTo">>,
     <<"isSupplementedBy", "IsSupplementedBy">>,
     <<"isContinuedBy", "IsContinuedBy">>, <<"continues", "Continues">>,
     <<"isNewVersionOf", "IsNewVersionOf">>,
     <<"isPreviousVersionOf", "IsPreviousVersionOf">>,
     <<"isPartOf", "IsPartOf">>, <<"hasPart", "HasPart">>,
     <<"isSourceOf", "IsSourceOf">>, <<"isDerivedFrom", "IsDerivedFrom">>,
     <<"isIdenticalTo", "IsIdenticalTo">>, <<"isServiceFor", "IsServiceFor">>,
     <<"isServedBy", "IsServedBy">> >>

relationshipRules(terms) ==
  [i \in DOMAIN terms |->
    N(None, Rel(terms[i][2]),
      <<N(terms[i][1], SF("VOR.relatedResource"), <<>>, ivoIdAttr)>>, {})]

\* builders._vrResourceBuilder
vrResourceBuilder ==
  << N("title", SF("VOR.title"), <<>>, {}),
     N("shortName", SF("VOR.shortName"), <<>>, {}),
     N("identifier", SF("VOR.identifier"), <<>>, {}),
     N("doi", Fn("doi"), <<>>, {}),
     N(None, SF("VOR.curation"), <<
       N("publisher", SF("VOR.publisher"), <<>>, ivoIdAttr),
       N("creator", SF("VOR.creator"), <<
         N("name", SF("VOR.name"), <<>>, {}),
         N("altIdentifier", SF("VOR.altIdentifier"), <<>>, {}),
         N("logo", SF("VOR.logo"), <<>>, {})>>, {}),
       N("contributor", SF("VOR.contributor"), <<>>, ivoIdAttr),
       N("_dataUpdated", SFWith("VOR.date", {<<"role", "updated">>}), <<>>, {}),
       N("date", SF("VOR.date"), <<>>, {<<"role", "role">>}),
       N("_news", Fn("_build_dateFromNews"), <<>>,
         {<<"role", "role">>, <<"date", "date">>}),
       N("version", SF("VOR.version"), <<>>, {}),
       N("contact", SF("VOR.contact"), <<
         N("name", SF("VOR.name"), <<>>, ivoIdAttr),
         N("address", SF("VOR.address"), <<>>, {}),
         N("email", SF("VOR.email"), <<>>, {}),
         N("telephone", SF("VOR.telephone"), <<>>, {})>>, {})>>, {}),
     N(None, SF("VOR.content"), <<
       N("subject", SF("VOR.subject"), <<>>, {}),
       N("description", SF("VOR.description"), <<>>, {}),
       N("source", Fn("_build_source"), <<>>, {}),
       N("referenceURL", SF("VOR.referenceURL"), <<>>, {}),
       N("type", SF("VOR.type"), <<>>, {}),
       N("contentLevel", SF("VOR.contentLevel"), <<>>, {})>>
       \o relationshipRules(oldRelationships)
       \o relationshipRules(newRelationships), {}) >>

\* builders._dcBuilder
dcBuilder ==
  << N("title", SF("DC.title"), <<>>, {}),
     N("identifier", SF("DC.identifier"), <<>>, {}),
     N("creator", Inline, <<N("name", SF("DC.creator"), <<>>, {})>>, {}),
     N("contributor", Inline, <<N("name", SF("DC.contributor"), <<>>, {})>>, {}),
     N("description", SF("DC.description"), <<>>, {}),
     N("language", SF("DC.language"), <<>>, {}),
     N("rights", SF("DC.rights"), <<>>, {}),
     N("publisher", SF("DC.publisher"), <<>>, {}) >>

\* builders._oaiHeaderBuilder
oaiHeaderBuilder ==
  << N("identifier", SF("OAI.identifier"), <<>>, {}),
     N("_metadataUpdated", SF("OAI.datestamp"), <<>>, {}),
     N("sets", SF("OAI.setSpec"), <<>>, {}) >>

\* builders._orgMetaBuilder
orgMetaBuilder ==
  << N("facility", SF("VOR.facility"), <<>>, {}),
     N("instrument", SF("VOR.instrument"), <<>>,
       {<<"altIdentifier", "altIdentifier">>, <<"ivoId", "ivoId">>}) >>

\* builders._standardsMetaBuilder
standardsMetaBuilder ==
  << N("endorsedVersion", SF("VSTD.endorsedVersion"), <<>>,
       {<<"status", "status">>, <<"use", "use">>}),
     N("deprecated", SF("VSTD.deprecated"), <<>>, {}),
     N("key", SF("VSTD.key"), <<
       N("name", SF("VSTD.name"), <<>>, {}),
       N("description", SF("VSTD.description"), <<>>, {})>>, {}) >>

\* builders._coverageMetaBuilder
coverageMetaBuilder ==
  << N("coverage", SF("VS.coverage"), <<
       N("profile", Fn("_stcResourceProfile"), <<>>, {}),
       N("spatial", SF("VS.spatial"), <<>>, {}),
       N("temporal", SF("VS.temporal"), <<>>, {}),
       N("spectral", SF("VS.spectral"), <<>>, {}),
       N("spatial", Fn("_build_footprintURL"), <<>>, {}),
       N("waveband", SF("VS.waveband"), <<>>, {}),
       N("regionOfRegard", SF("VS.regionOfRegard"), <<>>, {})>>, {}) >>

\* builders._rightsBuilder
rightsBuilder ==
  << N("rights", SF("VOR.rights"), <<>>, {<<"rightsURI", "rightsURI">>}) >>

\* builders._registryMetaBuilder
registryMetaBuilder ==
  << N("managedAuthority", SF("VOG.managedAuthority"), <<>>, {}) >>


(***************************************************************************)
(* tableset.py.  A table definition is [qname, rd, title, description,     *)
(* columns, foreignKeys, adql, obscoreClause]; rd is NoRD or               *)
(* [sourceId, schema, title, description].                                 *)
(***************************************************************************)
\* str.lower(), on the names of the model
lower(name) ==
  CASE name = "S1.Main" -> "s1.main"
    [] name = "S1.Aux" -> "s1.aux"
    [] name = "Other.T" -> "other.t"
    [] name = "RA" -> "ra"
    [] OTHER -> name

\* the order sorted() puts the schema names of the model in
schemaNames == <<"internal", "ivoa", "s1", "s2">>

\* tableset.getEffectiveTableName
getEffectiveTableName(tableDef) ==
  IF tableDef.isOutputTable THEN "output" ELSE lower(tableDef.qname)

\* a foreign key element that is made whatever the tables of the set
getForeignKeyForAnyTable(fk, namesInSet) ==
  <<WithKids(El("VS.foreignKey"),
      <<Leaf("VS.targetTable", lower(fk.destTableName))>>
      \o [i \in DOMAIN fk.source |->
           WithKids(El("VS.fkColumn"), <<
             Leaf("VS.fromColumn", lower(fk.source[i])),
             Leaf("VS.targetColumn", lower(fk.dest[i]))>>)])>>

\* tableset.getForeignKeyForForeignKey
getForeignKeyForForeignKey(fk, namesInSet) ==
  LET targetName == lower(fk.destTableName)
  IN  IF targetName \in namesInSet
        THEN <<WithKids(El("VS.foreignKey"),
               <<Leaf("VS.targetTable", targetName)>>
               \o [i \in DOMAIN fk.source |->
                    WithKids(El("VS.fkColumn"), <<
                      Leaf("VS.fromColumn", lower(fk.source[i])),
                      Leaf("VS.targetColumn", lower(fk.dest[i]))>>)])>>
        ELSE <<>>

\* tableset.getTableColumnFromColumn with voTableDataTypeFactory
getTableColumnFromColumn(column) ==
  WithKids(El("VS.column"), <<
    Leaf("VS.name", lower(column.name)),
    Leaf("VS.description", column.description),
    Leaf("VS.unit", column.unit),
    Leaf("VS.ucd", column.ucd),
    Leaf("VS.voTableDataType", column.type)>>)

\* tableset.getTableForTableDef
getTableForTableDef(tableDef, namesInSet) ==
  LET name == getEffectiveTableName(tableDef)
  IN  WithKids(
        WithAttrs(El("VS.table"),
          Attr("type", IF name = "output" THEN "output" ELSE None)),
        << Leaf("VS.name", name),
           Leaf("VS.title", tableDef.title),
           Leaf("VS.description", tableDef.description),
           Leaf("VS.utype", tableDef.utype),
           Leaf("VS.nrows", tableDef.nrows) >>
        \o [i \in DOMAIN tableDef.columns |->
             getTableColumnFromColumn(tableDef.columns[i])]
        \o Flatten([i \in DOMAIN tableDef.foreignKeys |->
             getForeignKeyForForeignKey(tableDef.foreignKeys[i], namesInSet)]))

\* tableset._getObscoreStub and the RD //obscore
obscoreRD ==
  [sourceId |-> "//obscore", schema |-> "ivoa", title |-> None,
   description |-> None]

getObscoreStub ==
  [qname |-> "ivoa.obscore", rd |-> obscoreRD, title |-> None,
   utype |-> None, nrows |-> "",
   description |-> "This data collection is queryable in obscore.",
   columns |-> <<>>, foreignKeys |-> <<>>, adql |-> "True",
   obscoreClause |-> FALSE, isOutputTable |-> FALSE]

hasObscore(tables) ==
  \E k \in DOMAIN tables : lower(tables[k].qname) = "ivoa.obscore"

\* lines 198-208, ivoa being the positions of the schemas called ivoa
addObscoreStub(schemas, ivoa) ==
  IF ivoa = {}
    THEN Append(schemas, <<obscoreRD, <<getObscoreStub>>, "list">>)
  ELSE [i \in DOMAIN schemas |->
         IF i \in ivoa /\ (\A j \in ivoa : i <= j)
              /\ ~ hasObscore(schemas[i][2])
           THEN <<schemas[i][1], Append(schemas[i][2], getObscoreStub),
                  schemas[i][3]>>
           ELSE schemas[i]]

\* the (rd, tables) pairs after the ivoa.obscore stub has been added
\* (tableset.getTablesetForSchemaCollection, lines 198-208)
withObscoreStub(schemas) ==
  addObscoreStub(schemas,
    {i \in DOMAIN schemas : schemas[i][1].schema = "ivoa"})

\* lines 209-219: the tableset element of the schemas
tablesetOf(schemas, namesInSet) ==
  WithKids(El("VS.tableset"),
    [i \in DOMAIN schemas |->
      WithKids(El("VS.schema"),
        << Leaf("VS.name", schemas[i][1].schema),
           Leaf("VS.title", schemas[i][1].title),
           Leaf("VS.description", schemas[i][1].description) >>
        \o [k \in DOMAIN schemas[i][2] |->
             getTableForTableDef(schemas[i][2][k], namesInSet)])])

\* lines 185-208, allTables being the tables of all schemas
tablesetFor(schemas, allTables) ==
  tablesetOf(
    IF \E i \in DOMAIN allTables : allTables[i].obscoreClause
      THEN withObscoreStub(schemas) ELSE schemas,
    {lower(getEffectiveTableName(allTables[i])) : i \in DOMAIN allTables})

\* tableset.getTablesetForSchemaCollection
getTablesetForSchemaCollection(schemas) ==
  tablesetFor(schemas, Flatten([i \in DOMAIN schemas |-> schemas[i][2]]))

\* _InternalSchemaStandin
INTERNAL_SCHEMA ==
  [sourceId |-> None, schema |-> "internal", title |-> "Not a Schema",
   description |-> "A helper for virtual and temporary tables"]

\* the rd attribute of a table definition that has no RD
NoRD ==
  [sourceId |-> None, schema |-> None, title |-> None, description |-> None]

schemaOf(tableDef) ==
  IF tableDef.rd = NoRD THEN "internal" ELSE tableDef.rd.schema

\* the tables getTablesetForService works on (lines 247-255), and whether
\* "not tables" holds of them: ResRec.getTableSet is a generator, which is
\* never false
tablesOfResource(resource) ==
  CASE resource.cls = "TableDef" -> resource.tables
    [] resource.cls = "DataDescriptor" ->
         SelectSeq(resource.tables,
           LAMBDA td : td.adql # None /\ td.adql # "hidden")
    [] OTHER -> resource.tables

notTables(resource) ==
  CASE resource.cls \in {"TableDef", "DataDescriptor"} ->
         tablesOfResource(resource) = <<>>
    [] OTHER -> FALSE

\* the tables of a schema, in the order they came in
bySchema(tables, n) == SelectSeq(tables, LAMBDA t : schemaOf(t) = n)

\* lines 262-265: the rd of a schema is that of the table seen last
rdOfLast(last) == IF last.rd = NoRD THEN INTERNAL_SCHEMA ELSE last.rd

rdForSchema(tables) == rdOfLast(tables[Len(tables)])

\* lines 257-286: the schemas of the tables, sorted by name
schemasFor(tables, sorted) ==
  [i \in DOMAIN sorted |->
    <<rdForSchema(bySchema(tables, sorted[i])), bySchema(tables, sorted[i]),
      "list">>]

schemasOfTables(tables) ==
  schemasFor(tables,
    SelectSeq(schemaNames,
      LAMBDA n : \E i \in DOMAIN tables : schemaOf(tables[i]) = n))

\* tableset.getTablesetForService
getTablesetForService(resource) ==
  IF notTables(resource)
    THEN WithKids(El("VS.tableset"),
           <<WithKids(El("VS.schema"), <<Leaf("VS.name", "default")>>)>>)
    ELSE getTablesetForSchemaCollection(
           schemasOfTables(tablesOfResource(resource)))


(***************************************************************************)
(* builders.py: resource records.  A resource object is                    *)
(* [cls, id, rd, resType, meta, publications, inputKeys, tables,           *)
(*  coverageURL]; results carry the errors reported to base.ui on the way. *)
(***************************************************************************)
Res(exc, val, reports) == [exc |-> exc, val |-> val, reports |-> reports]

\* a result, after the errors that were reported before its call
afterReports(reports, result) ==
  Res(result.exc, result.val, reports \o result.reports)

\* the rest of a function body, run on what a call returned unless it
\* raised; the errors reported so far are kept
ThenRes(result, Rest(_)) ==
  IF result.exc # None THEN result
  ELSE afterReports(result.reports, Rest(result.val))

\* all publications, whatever their sets
allPublications(resob, names) == resob.publications

\* ResRec.getPublicationsForSet
getPublicationsForSet(resob, names) ==
  SelectSeq(resob.publications, LAMBDA p : p.sets \cap names # {})

\* the resType attribute of the object first, its meta only without one
getResTypeInferredFirst(resob) ==
  IF resob.resType # None
    THEN resob.resType
    ELSE getMetaText(resob, "resType", None)

\* common.getResType
getResType(resob) ==
  IF getMetaText(resob, "resType", None) = None
    THEN resob.resType
    ELSE getMetaText(resob, "resType", None)

\* builders.getResourceArgs
getResourceArgs(resob) ==
  Attr("created", getMetaText(resob, "creationDate", None))
  \cup Attr("updated", getMetaText(resob, "_metadataUpdated", None))
  \cup Attr("status", getMetaText(resob, "status", None))

RMaker(resourceClass, method) ==
  [resourceClass |-> resourceClass, method |-> method]

\* the ResourceMaker subclasses that declare a resType
ResourceMakers ==
  [t \in {"nonTabularService", "dataService", "catalogService", "registry",
          "organization", "authority", "standard", "document", "deleted",
          "table", "data"} |->
    CASE t = "nonTabularService" -> RMaker("VS.DataService", "ServiceResourceMaker")
      [] t = "dataService" -> RMaker("VS.DataService", "DataServiceResourceMaker")
      [] t = "catalogService" ->
           RMaker("VS.CatalogService", "CatalogServiceResourceMaker")
      [] t = "registry" -> RMaker("VOG.Resource", "RegistryResourceMaker")
      [] t = "organization" -> RMaker("VOR.Organisation", "OrgResourceMaker")
      [] t = "authority" -> RMaker("VOG.Authority", "AuthResourceMaker")
      [] t = "standard" -> RMaker("VSTD.Standard", "StandardsResourceMaker")
      [] t = "document" -> RMaker("DOC.Document", "CatalogServiceResourceMaker")
      [] t = "deleted" -> RMaker("RI.Resource", "DeletedResourceMaker")
      [] t = "table" -> RMaker("VS.CatalogResource", "TableResourceMaker")
      [] t = "data" -> RMaker("VS.CatalogResource", "DataResourceMaker")]

\* the element types that are resources
ResourceClasses ==
  {"RI.Resource", "VS.DataService", "VS.CatalogService", "VOG.Resource",
   "VOR.Organisation", "VOG.Authority", "VSTD.Standard", "DOC.Document",
   "VS.CatalogResource"}

\* ResourceMaker._makeResource
ResourceMaker_makeResource(maker, resob, setNames) ==
  WithKids(WithAttrs(Cls(maker.resourceClass), getResourceArgs(resob)),
    << WithAttrs(
         Leaf("VOR.validationLevel", getMetaText(resob, "validationLevel", None)),
         {<<"validatedBy", getMetaText(resob, "validatedBy", "None")>>}) >>
    \o ModelBasedBuilder_build(vrResourceBuilder, resob, resob))

RECURSIVE capabilitiesOf(_, _)
\* [capabilities.getCapabilityElement(pub) for pub in pubs]
capabilitiesOf(pubs, parent) ==
  IF pubs = <<>> THEN Ok(<<>>)
  ELSE Then(getCapabilityElement(Head(pubs), parent),
         LAMBDA first :
           Then(capabilitiesOf(Tail(pubs), parent),
             LAMBDA others : Ok(first \o others)))

\* [capabilities.getCapabilityElement(pub)
\*    for pub in resob.getPublicationsForSet(setNames)]
capabilitiesFor(resob, setNames) ==
  capabilitiesOf(getPublicationsForSet(resob, setNames), resob)

\* the coverage profiles stc.parseSTCS fails on
badProfiles(resob) ==
  LET coverages == iterMeta(resob, "coverage")
      profiles == Flatten([i \in DOMAIN coverages |->
                    iterMeta(coverages[i], "profile")])
  IN  SelectSeq(profiles,
        LAMBDA v : v.content # "" /\ v.content \notin GoodSTCS)

\* bad profiles that are reported and left out whatever VALIDATING says
profileErrorsReported(bad) ==
  Res(None, <<>>, [i \in DOMAIN bad |-> "Coverage profile bad"])

\* bad profiles that are raised whatever VALIDATING says
profileErrorsRaised(bad) ==
  IF bad # <<>>
    THEN Res("STCSParseError", <<>>, <<>>)
    ELSE Res(None, <<>>, <<>>)

\* what _stcResourceProfile does about the bad profiles: it re-raises when
\* VALIDATING, and else reports each and leaves it out
profileErrors(bad) ==
  IF bad # <<>> /\ VALIDATING
    THEN Res("STCSParseError", <<>>, <<>>)
    ELSE Res(None, <<>>, [i \in DOMAIN bad |-> "Coverage profile bad"])

\* _coverageMetaBuilder.build(resob)
buildCoverage(resob) ==
  ThenRes(profileErrors(badProfiles(resob)),
    LAMBDA none :
      Res(None, ModelBasedBuilder_build(coverageMetaBuilder, resob, resob),
        <<>>))

\* a result without reports as one with
asRes(result) == Res(result.exc, result.val, <<>>)

\* In the makers below, caps is what
\*   [capabilities.getCapabilityElement(pub)
\*     for pub in resob.getPublicationsForSet(setNames)]
\* returns or raises at the place where the maker has it.

\* ServiceResourceMaker._makeResource
ServiceResourceMaker_makeResource(maker, service, setNames, caps) ==
  ThenRes(caps,
    LAMBDA made :
      Res(None,
        <<WithKids(
            WithKids(ResourceMaker_makeResource(maker, service, setNames),
              ModelBasedBuilder_build(rightsBuilder, service, service)),
            made)>>,
        <<>>))

\* a data service maker that puts its own children before its parent's
DataServiceResourceMaker_ownFirst(maker, service, setNames, caps) ==
  ThenRes(ServiceResourceMaker_makeResource(maker, service, setNames, caps),
    LAMBDA base :
      ThenRes(buildCoverage(service),
        LAMBDA coverage :
          Res(None,
            <<WithKids([base[1] EXCEPT !.kids = <<>>],
                ModelBasedBuilder_build(orgMetaBuilder, service, service)
                \o coverage \o base[1].kids)>>,
            <<>>)))

\* DataServiceResourceMaker._makeResource
DataServiceResourceMaker_makeResource(maker, service, setNames, caps) ==
  ThenRes(ServiceResourceMaker_makeResource(maker, service, setNames, caps),
    LAMBDA base :
      ThenRes(buildCoverage(service),
        LAMBDA coverage :
          Res(None,
            <<WithKids(base[1],
                ModelBasedBuilder_build(orgMetaBuilder, service, service)
                \o coverage)>>,
            <<>>)))

\* CatalogServiceResourceMaker._makeResource
CatalogServiceResourceMaker_makeResource(maker, service, setNames, caps) ==
  ThenRes(DataServiceResourceMaker_makeResource(maker, service, setNames, caps),
    LAMBDA base :
      Res(None, <<WithKids(base[1], <<getTablesetForService(service)>>)>>,
        <<>>))

\* RegistryResourceMaker._makeResource
RegistryResourceMaker_makeResource(maker, registry, setNames, caps) ==
  ThenRes(ServiceResourceMaker_makeResource(maker, registry, setNames, caps),
    LAMBDA base :
      Res(None,
        <<WithKids(base[1],
            <<Leaf("VOG.full", getMetaText(registry, "full", "false"))>>
            \o ModelBasedBuilder_build(registryMetaBuilder, registry, registry)
            \o <<getTablesetForService(registry)>>)>>,
        <<>>))

\* OrgResourceMaker._makeResource
OrgResourceMaker_makeResource(maker, registry, setNames) ==
  Res(None,
    <<WithKids(ResourceMaker_makeResource(maker, registry, setNames),
        ModelBasedBuilder_build(orgMetaBuilder, registry, registry))>>, <<>>)

\* AuthResourceMaker._makeResource
AuthResourceMaker_makeResource(maker, registry, setNames) ==
  Res(None,
    <<WithKids(ResourceMaker_makeResource(maker, registry, setNames),
        <<WithAttrs(
            Leaf("VOG.managingOrg", getMetaText(registry, "managingOrg", None)),
            Attr("ivoId", getMetaText(registry, "managingOrg.ivo-id", None)))>>)>>,
    <<>>)

\* StandardsResourceMaker._makeResource
StandardsResourceMaker_makeResource(maker, registry, setNames) ==
  Res(None,
    <<WithKids(ResourceMaker_makeResource(maker, registry, setNames),
        ModelBasedBuilder_build(standardsMetaBuilder, registry, registry))>>,
    <<>>)

\* DeletedResourceMaker._makeResource
DeletedResourceMaker_makeResource(maker, res, setNames) ==
  Res(None, <<>>, <<>>)

\* set.append does not exist: tableset.py line 205 fails when it is to add
\* the obscore stub to the tables of the ivoa schema and these are a set
appendsToSet(schemas) ==
  /\ \E i \in DOMAIN schemas :
       \E k \in DOMAIN schemas[i][2] : schemas[i][2][k].obscoreClause
  /\ \E i \in DOMAIN schemas :
       /\ schemas[i][1].schema = "ivoa"
       /\ schemas[i][3] = "set"
       /\ ~ \E k \in DOMAIN schemas[i][2] :
              lower(schemas[i][2][k].qname) = "ivoa.obscore"

\* DataCollectionResourceMaker._makeTableset
makeTableset(schemas) ==
  IF appendsToSet(schemas)
    THEN Res("AttributeError", <<>>, <<>>)
    ELSE Res(None, <<getTablesetForSchemaCollection(schemas)>>, <<>>)

\* DataCollectionResourceMaker._makeResourceForSchemas; schemas are
\* (rd, tables, the type of tables)
makeResourceForSchemas(maker, metaCarrier, schemas, setNames, caps) ==
  ThenRes(caps,
    LAMBDA made :
      ThenRes(buildCoverage(metaCarrier),
        LAMBDA coverage :
          ThenRes(makeTableset(schemas),
            LAMBDA tableset :
              Res(None,
                <<WithKids(
                    ResourceMaker_makeResource(maker, metaCarrier, setNames),
                    made
                    \o ModelBasedBuilder_build(orgMetaBuilder, metaCarrier,
                         metaCarrier)
                    \o coverage
                    \o tableset)>>,
                <<>>))))

\* an order of iteration that changes once dependencies are cached
iterSetAnew(tables) ==
  IF cached # {}
    THEN [i \in DOMAIN tables |-> tables[Len(tables) + 1 - i]]
    ELSE tables

\* iterating set(tables): some order fixed by the hashes of the objects
iterSet(tables) ==
  IF hashOrder = "reversed"
    THEN [i \in DOMAIN tables |-> tables[Len(tables) + 1 - i]]
    ELSE tables

\* the schemas TableResourceMaker._makeResource and
\* DataResourceMaker._makeResource pass on
schemasOf(method, res) ==
  IF method = "TableResourceMaker"
    THEN << <<res.rd, res.tables, "list">> >>
    ELSE << <<res.rd, iterSet(res.tables), "set">> >>

\* the _makeResource of the maker's class
makeResource(maker, res, names, caps) ==
  CASE maker.method = "ServiceResourceMaker" ->
         ServiceResourceMaker_makeResource(maker, res, names, caps)
    [] maker.method = "DataServiceResourceMaker" ->
         DataServiceResourceMaker_makeResource(maker, res, names, caps)
    [] maker.method = "CatalogServiceResourceMaker" ->
         CatalogServiceResourceMaker_makeResource(maker, res, names, caps)
    [] maker.method = "RegistryResourceMaker" ->
         RegistryResourceMaker_makeResource(maker, res, names, caps)
    [] maker.method = "OrgResourceMaker" ->
         OrgResourceMaker_makeResource(maker, res, names)
    [] maker.method = "AuthResourceMaker" ->
         AuthResourceMaker_makeResource(maker, res, names)
    [] maker.method = "StandardsResourceMaker" ->
         StandardsResourceMaker_makeResource(maker, res, names)
    [] maker.method = "DeletedResourceMaker" ->
         DeletedResourceMaker_makeResource(maker, res, names)
    [] maker.method \in {"TableResourceMaker", "DataResourceMaker"} ->
         makeResourceForSchemas(maker, res, schemasOf(maker.method, res),
           names, caps)

\* ResourceMaker.__call__: the maker's _makeResource
callResourceMaker(maker, res, names) ==
  makeResource(maker, res, names, asRes(capabilitiesFor(res, names)))

\* builders.getVORMetadataElement: _getResourceMaker raises KeyError when
\* no maker declares the resType
getVORMetadataElement(res, names) ==
  IF getResType(res) \notin DOMAIN ResourceMakers
    THEN Res("KeyError", <<>>, <<>>)
    ELSE callResourceMaker(ResourceMakers[getResType(res)], res, names)

\* builders.getDCMetadataElement
getDCMetadataElement(res, names) ==
  Res(None,
    <<WithKids(El("OAIDC.dc"), ModelBasedBuilder_build(dcBuilder, res, res))>>,
    <<>>)

\* builders.getResourceElement, metadata being what metadataMaker returned
getResourceElement(res, names, metadata) ==
  ThenRes(metadata,
    LAMBDA made :
      Res(None,
        <<WithKids(El("OAI.record"), <<
            WithKids(
              WithAttrs(El("OAI.header"),
                Attr("status",
                  IF getMetaText(res, "status", None) = "deleted"
                    THEN "deleted" ELSE None)),
              ModelBasedBuilder_build(oaiHeaderBuilder, res, res)),
            WithKids(El("OAI.metadata"), made)>>)>>,
        <<>>))

\* builders.getVOResourceElement
getVOResourceElement(res, names) ==
  getResourceElement(res, names, getVORMetadataElement(res, names))

\* builders.getDCResourceElement
getDCResourceElement(res, names) ==
  getResourceElement(res, names, getDCMetadataElement(res, names))

\* whether getVORMetadataElement gets as far as ResourceMaker._makeResource,
\* which starts with _loadDependencies
loadsDependencies(res) ==
  /\ getResType(res) \in DOMAIN ResourceMakers
  /\ ResourceMakers[getResType(res)].method # "DeletedResourceMaker"

\* common.getDependencies: the prereq column of dc.res_dependencies
getDependencies(rdId) ==
  CASE rdId = "rdA" -> <<"rdB">>
    [] OTHER -> <<>>


(***************************************************************************)
(* The inputs of the model.                                                *)
(***************************************************************************)
RECURSIVE SeqsUpTo(_, _)
\* the sequences over a set of at most n elements
SeqsUpTo(S, n) ==
  IF n = 0 THEN {<<>>}
  ELSE LET shorter == SeqsUpTo(S, n - 1)
       IN  shorter \cup {Append(q, x) : q \in shorter, x \in S}

URL(scheme, netloc, local, tail) == <<scheme, "://", netloc, "/", local>> \o tail

AccessURLs ==
  { URL("http", HTTP_SERVER, "svc/long/siap.xml", <<"?">>),
    URL("http", HTTP_SERVER, "svc/q/scs.xml", <<>>),
    URL("https", HTTP_SERVER, "svc/long/siap.xml", <<>>),
    URL("http", "other.example.org", "svc/long/siap.xml", <<"?", "a=b", "&">>) }

MirrorURLs ==
  { URL("http", HTTP_SERVER, "alias", <<"?">>),
    URL("http", HTTP_SERVER, "svc/long/siap.xml", <<"?">>),
    URL("https", HTTP_SERVER, "svc/q/scs.xml", <<>>) }

One(key, content) == [k \in {key} |-> <<MetaValue(content)>>]

\* f @@ g for functions with string domains
Merge(f, g) ==
  [k \in DOMAIN f \cup DOMAIN g |-> IF k \in DOMAIN f THEN f[k] ELSE g[k]]

PubMetas ==
  { Merge(One("description", "A service"),
      One("securityId", "ivo://ivoa.net/sso#BasicAA")),
    Merge(One("description", " "),
      Merge(One("urlUse", "base"),
        Merge(One("requestMethod", "GET"), One("sourceURL", "http://src")))) }

Renders ==
  {"dali", "siap.xml", "scs.xml", "form", "availability", "edition", "soap",
   "pubreg.xml", "api", "bogus"}

Publication(render, sets, auxiliary, accessURL, mirrorURL, meta) ==
  [render |-> render, sets |-> sets, auxiliary |-> auxiliary,
   accessURL |-> accessURL, mirrorURL |-> mirrorURL, meta |-> meta]

\* the publications capabilities are made for
CapabilityPublications ==
  { Publication(r, {"ivo_managed"}, aux, url, <<>>, m) :
      r \in Renders, aux \in BOOLEAN,
      url \in {u \in AccessURLs : u[3] = HTTP_SERVER /\ u[1] = "http"},
      m \in PubMetas }

\* the renderers interfaces are made for: one for each _makeInterface, and
\* one no maker is declared for
InterfaceRenders ==
  {"availability", "siap.xml", "edition", "dali", "soap", "pubreg.xml",
   "bogus"}

\* the publications interfaces are made for
InterfacePublications ==
  { Publication(r, {"ivo_managed"}, FALSE, url, mirrors, m) :
      r \in InterfaceRenders, url \in AccessURLs,
      mirrors \in SeqsUpTo(MirrorURLs, MaxMirrors), m \in PubMetas }

Column(name) ==
  [name |-> name, description |-> "a column", unit |-> None, ucd |-> None,
   type |-> "real", std |-> FALSE]

\* the services these publications are children of
Parents ==
  { [cls |-> "ResRec", meta |-> NoMeta, inputKeys |-> <<>>],
    [cls |-> "ResRec",
     meta |-> Merge(One("sia.type", "Pointed"),
                Merge(One("testQuery.ra", "10"), One("testQuery.dec", "20"))),
     inputKeys |-> <<Column("RA")>>] }


\* the publications of the resources that are built
pubMeta(description) == One("description", description)

ResourcePublications ==
  { Publication("siap.xml", {"ivo_managed"}, FALSE,
      URL("http", HTTP_SERVER, "svc/long/siap.xml", <<"?">>),
      <<URL("http", HTTP_SERVER, "alias", <<"?">>)>>, pubMeta("sia")),
    Publication("siap.xml", {"ivo_managed", "local"}, TRUE,
      URL("http", HTTP_SERVER, "svc/long/siap.xml", <<"?">>), <<>>,
      pubMeta("sia-aux")),
    Publication("scs.xml", {"ivo_managed"}, TRUE,
      URL("http", HTTP_SERVER, "svc/q/scs.xml", <<>>), <<>>, pubMeta("scs-aux")),
    Publication("form", {"local"}, FALSE,
      URL("http", HTTP_SERVER, "svc/q/form", <<>>), <<>>, pubMeta("form")) }

RD(sourceId, schema) ==
  [sourceId |-> sourceId, schema |-> schema, title |-> "An RD",
   description |-> None]

TableDef(qname, rd, foreignKeys, obscoreClause) ==
  [qname |-> qname, rd |-> rd, title |-> None, description |-> "a table",
   utype |-> None, nrows |-> "", columns |-> <<Column("RA")>>,
   foreignKeys |-> foreignKeys, adql |-> "True",
   obscoreClause |-> obscoreClause, isOutputTable |-> FALSE]

ForeignKey(destTableName) ==
  [destTableName |-> destTableName, source |-> <<"RA">>, dest |-> <<"RA">>]

rdA == RD("rdA", "s1")

rdB == RD("rdB", "s2")

TableLists ==
  { <<>>,
    << TableDef("Other.T", NoRD, <<>>, FALSE) >>,
    << TableDef("S1.Main", rdA, <<ForeignKey("S1.Aux"), ForeignKey("Other.T")>>,
         FALSE),
       TableDef("S1.Aux", rdA, <<>>, TRUE) >> }

withIvoId(content, ivoId) == MetaValueWith(content, One("ivoId", ivoId))

\* the metadata of the resources: rich, and troublesome
metaRich ==
  [k \in {"title", "identifier", "creationDate", "_metadataUpdated", "status",
          "validationLevel", "creator", "servedBy", "isServedBy", "source",
          "rights", "facility", "coverage", "sia.type", "sets", "_news"} |->
    CASE k = "title" -> <<MetaValue("A resource")>>
      [] k = "identifier" -> <<MetaValue("ivo://x-test/res")>>
      [] k = "creationDate" -> <<MetaValue("2020-01-01T00:00:00Z")>>
      [] k = "_metadataUpdated" -> <<MetaValue("2021-01-01T00:00:00Z")>>
      [] k = "status" -> <<MetaValue("active")>>
      [] k = "validationLevel" -> <<MetaValue("2")>>
      [] k = "creator" -> <<MetaValueWith("", One("name", "Doe, J."))>>
      [] k = "servedBy" -> <<withIvoId("The TAP service", "ivo://x-test/tap")>>
      [] k = "isServedBy" -> <<withIvoId("", "ivo://x-test/tap")>>
      [] k = "source" -> <<MetaValue("2015A&C....10...88D")>>
      [] k = "rights" -> <<MetaValue("CC-0")>>
      [] k = "facility" -> <<MetaValue("A telescope")>>
      [] k = "coverage" ->
           <<MetaValueWith("", Merge(One("profile", "Polygon ICRS 0 0 1 0 1 1"),
               One("waveband", "Optical")))>>
      [] k = "sia.type" -> <<MetaValue("Pointed")>>
      [] k = "sets" -> <<MetaValue("ivo_managed"), MetaValue("local")>>
      [] k = "_news" ->
           <<MetaValueWith("Data re-reduced", One("date", "2020-01-01"))>>]

metaTrouble ==
  [k \in {"title", "identifier", "coverage", "status", "doi"} |->
    CASE k = "title" -> <<MetaValue(" ")>>
      [] k = "identifier" -> <<MetaValue("ivo://x-test/trouble")>>
      [] k = "coverage" ->
           <<MetaValueWith("", Merge(One("profile", "Circle ICRS mangled"),
               One("spatial", "0/1-3")))>>
      [] k = "status" -> <<MetaValue("deleted")>>
      [] k = "doi" -> <<MetaValue("10.21938/x")>>]

ResourceMetas == {metaRich, metaTrouble}

\* the kinds of the resources: the class of the object, its resType
\* attribute, and its resType meta (or None)
ResourceKinds ==
  { <<"ResRec", None, "nonTabularService">>, <<"ResRec", None, "dataService">>,
    <<"ResRec", None, "catalogService">>, <<"ResRec", None, "registry">>,
    <<"ResRec", None, "organization">>, <<"ResRec", None, "authority">>,
    <<"ResRec", None, "standard">>, <<"ResRec", None, "document">>,
    <<"ResRec", None, "deleted">>, <<"ResRec", None, "frobnicator">>,
    <<"TableDef", "table", None>>, <<"DataDescriptor", "data", None>> }

Resource(kind, meta, publications, tables) ==
  [cls |-> kind[1], resType |-> kind[2],
   id |-> "res", rd |-> rdA,
   meta |-> Merge(IF kind[3] = None THEN NoMeta ELSE One("resType", kind[3]),
              meta),
   publications |-> publications, inputKeys |-> <<>>, tables |-> tables,
   coverageURL |-> "http://dc.example.org/res/coverage"]

\* nonservice.DeletedResource: built from a row of dc.resources; its meta
\* are the identifier, the record timestamp and the status "deleted"
DeletedResource ==
  [cls |-> "DeletedResource", resType |-> "deleted", id |-> "gone", rd |-> rdB,
   meta |-> Merge(One("status", "deleted"),
              Merge(One("identifier", "ivo://x-test/gone"),
                One("_metadataUpdated", "2022-01-01T00:00:00Z"))),
   publications |-> <<>>, inputKeys |-> <<>>, tables |-> <<>>,
   coverageURL |-> None]

\* the tables of a resource: a published table definition is its own,
\* single table; a service may have none
tableListsOf(kind) ==
  CASE kind[1] = "TableDef" ->
         {<<TableDef("S1.Main", rdA, <<ForeignKey("Other.T")>>, TRUE)>>}
    [] kind[1] = "DataDescriptor" -> TableLists
    [] kind[3] = "catalogService" -> {t \in TableLists : t = <<>> \/ Len(t) = 2}
    [] OTHER -> {<<>>}

\* the kinds whose makers look at the publications, and at the tables
CapabilityKinds ==
  {k \in ResourceKinds :
     k[1] # "ResRec" \/ k[3] \in {"nonTabularService", "dataService",
                                   "catalogService", "registry", "document"}}

TablesetKinds ==
  {k \in CapabilityKinds : k[3] \notin {"nonTabularService", "dataService"}}

\* the kinds that are built with several publications
ManyPublicationsKinds ==
  {k \in CapabilityKinds :
     k[1] = "TableDef" \/ k[3] \in {"nonTabularService", "catalogService"}}

\* the sequences of at most n publications, none of them twice
publicationLists(n) ==
  {q \in SeqsUpTo(ResourcePublications, n) :
     \A i, j \in DOMAIN q : q[i] = q[j] => i = j}

resourcesOfKind(kind) ==
  { Resource(kind, meta, pubs, tables) :
      meta \in ResourceMetas,
      pubs \in publicationLists(
                IF kind \in ManyPublicationsKinds THEN MaxPubs ELSE 1),
      tables \in IF kind \in TablesetKinds THEN tableListsOf(kind) ELSE {<<>>} }

\* meta without a key
withoutKey(meta, key) == [k \in DOMAIN meta \ {key} |-> meta[k]]

\* a table of another RD that an explicit resType meta declares to be an
\* organization; and data services without coverage meta and with a
\* coverage the profile of which is empty
SpecialResources ==
  { [Resource(<<"TableDef", "table", "organization">>, metaRich, <<>>, <<>>)
       EXCEPT !.rd = rdB],
    Resource(<<"ResRec", None, "dataService">>,
      withoutKey(metaRich, "coverage"), <<>>, <<>>),
    Resource(<<"ResRec", None, "dataService">>,
      Merge([k \in {"coverage"} |->
              <<MetaValueWith("", Merge(One("profile", ""),
                  One("waveband", "Optical")))>>],
        metaRich),
      <<>>, <<>>) }

\* the resources records are built for
Resources ==
  UNION {resourcesOfKind(kind) : kind \in ResourceKinds}
  \cup {DeletedResource}
  \cup SpecialResources

\* the resources that are listed: catalog services without publications,
\* and one with a publication that needs meta the service lacks
ListResources ==
  { r \in Resources :
      /\ r.cls = "ResRec"
      /\ getResType(r) = "catalogService"
      /\ r.tables = <<>>
      /\ \/ r.publications = <<>>
         \/ /\ ~ hasMeta(r, "sia.type")
            /\ Len(r.publications) = 1
            /\ r.publications[1].render = "siap.xml"
            /\ ~ r.publications[1].auxiliary }

\* the resources Dublin Core records are built for
DCResources == ListResources \cup {DeletedResource}

SetNameSets == {{"ivo_managed"}, {"ivo_managed", "local"}}


Configs ==
  { [registerAlternative |-> FALSE, future |-> {}],
    [registerAlternative |-> TRUE, future |-> {"dali-interface-in-tap"}] }

RDs == {"rdA", "rdB"}

(***************************************************************************)
(* publication.py: the rows of the service list.  What a row generator     *)
(* gives is [exc, val, warnings, reports]: the exception that left it (or  *)
(* None), the rows <<table, record>> as they were when yielded, what was   *)
(* told to base.ui.notifyWarning, and what to base.ui.notifyError.         *)
(***************************************************************************)
PRes(exc, val, warnings, reports) ==
  [exc |-> exc, val |-> val, warnings |-> warnings, reports |-> reports]

\* builders._defaultSet
defaultSet == {"ivo_managed"}

HIDDEN_RENDERERS == {"tableMetadata", "availability", "capabilities"}

\* getManagedAuthorities(): the managedAuthority meta of //services#registry
getManagedAuthorities == {"x-test"}

\* urllib.parse.urlparse(ivoid).netloc, on the identifiers of the model
netlocOf(ivoid) ==
  CASE ivoid \in {"ivo://x-test/res", "ivo://x-test/trouble",
                  "ivo://x-test/gone", "ivo://x-test/s1",
                  "ivo://x-test/s2", "ivo://x-test/s3",
                  "ivo://x-test/main", "ivo://x-test/tap"} -> "x-test"
    [] ivoid = "ivo://elsewhere/res" -> "elsewhere"
    [] ivoid = "ivo://x-unregistred/res" -> "x-unregistred"
    [] OTHER -> ""

\* the meta a resource must have (the ResRec docstring, nonservice.py)
MandatoryMeta ==
  {"title", "subject", "description", "referenceURL", "creationDate"}

\* base.validateStructure(res): MetaValidationError when mandatory meta is
\* missing
validateStructure(res) ==
  IF \A key \in MandatoryMeta : hasMeta(res, key)
    THEN Ok(<<>>)
    ELSE Raise("MetaValidationError")

\* res.getPublicationsForSet({"ivo_managed"}, includeDatalink=False):
\* ResRec.getPublicationsForSet takes no includeDatalink
publicationsInManaged(res) ==
  IF res.cls = "ResRec"
    THEN Raise("TypeError")
    ELSE Ok(getPublicationsForSet(res, {"ivo_managed"}))

RECURSIVE joinAuthors(_)
\* "; ".join(...) of the creator names
joinAuthors(names) ==
  IF names = <<>> THEN ""
  ELSE IF Len(names) = 1 THEN names[1].content
  ELSE names[1].content \o "; " \o joinAuthors(Tail(names))

\* the creator.name metas of a resource
creatorNames(res) ==
  Flatten([i \in DOMAIN iterMeta(res, "creator") |->
    iterMeta(iterMeta(res, "creator")[i], "name")])

\* lines 88-108 of makeBaseRecord: the record of a resource; the time is
\* "now" unless a record timestamp is to be kept and there is one
baseRecord(res, ivoid, keep) ==
  [ivoid |-> ivoid,
   shortName |-> getMetaText(res, "shortName", None),
   sourceRD |-> res.rd.sourceId,
   resId |-> res.id,
   title |-> getMetaText(res, "title", None),
   deleted |-> FALSE,
   recTimestamp |->
     IF keep /\ hasMeta(res, "recTimestamp")
       THEN getMetaText(res, "recTimestamp", None)
       ELSE "now",
   description |-> getMetaText(res, "description", None),
   authors |-> joinAuthors(creatorNames(res)),
   dateUpdated |-> getMetaText(res, "_dataUpdated", None)]

\* the authority check of makeBaseRecord (lines 67-86), on a resource that
\* validated and could be built
checkAuthority(res, auth) ==
  LET unsure == auth = "x-unregistred"
                  /\ getMetaText(res, "i-am-sure", "") # "yes"
  IN  IF unsure /\ publicationsInManaged(res).exc # None
        THEN publicationsInManaged(res).exc
      ELSE IF unsure /\ publicationsInManaged(res).val # <<>>
        THEN "ReportableError"
      ELSE IF auth \notin getManagedAuthorities
        THEN "SkipThis"
      ELSE None

\* a base record that is made whatever the authority of the identifier
makeBaseRecordOfAny(res, keep, built) ==
  IF validateStructure(res).exc # None
    THEN PRes(validateStructure(res).exc, <<>>, <<>>, <<>>)
  ELSE IF built.exc # None
    THEN PRes(built.exc, <<>>, <<>>, built.reports)
  ELSE PRes(None,
         <<baseRecord(res, getMetaText(res, "identifier", None), keep)>>,
         <<>>, built.reports)

\* publication.makeBaseRecord; built is what
\* builders.getVOResourceElement(res) returns or raises
makeBaseRecord(res, keep, built) ==
  IF validateStructure(res).exc # None
    THEN PRes(validateStructure(res).exc, <<>>, <<>>, <<>>)
  ELSE IF built.exc # None
    THEN PRes(built.exc, <<>>, <<>>, built.reports)
  ELSE LET ivoid == getMetaText(res, "identifier", None)
           raised == checkAuthority(res, netlocOf(ivoid))
       IN  IF raised = "SkipThis"
             THEN PRes(raised, <<>>, <<"Skipping publication of resource">>,
                    built.reports)
           ELSE IF raised # None
             THEN PRes(raised, <<>>, <<>>, built.reports)
           ELSE PRes(None, <<baseRecord(res, ivoid, keep)>>, <<>>,
                  built.reports)

\* the authors a creator name stands for: split at semicolons and stripped,
\* without those that start with "et al"
authorsIn(name) ==
  CASE name = "Doe, J.; Roe, R.; et al." -> <<"Doe, J.", "Roe, R.">>
    [] OTHER -> <<name>>

\* publication.iterAuthorsAndSubjects
iterAuthorsAndSubjects(resource, sourceRD, resId) ==
  LET subjects ==
        IF hasMeta(resource, "subject")
          THEN [i \in DOMAIN iterMeta(resource, "subject") |->
                 iterMeta(resource, "subject")[i].content]
          ELSE <<None>>
      names == creatorNames(resource)
  IN  [i \in DOMAIN subjects |->
        <<"subjects",
          [sourceRD |-> sourceRD, resId |-> resId, subject |-> subjects[i]]>>]
      \o Flatten([i \in DOMAIN names |->
           [j \in DOMAIN authorsIn(names[i].content) |->
             <<"authors",
               [sourceRD |-> sourceRD, resId |-> resId,
                author |-> authorsIn(names[i].content)[j]]>>]])

RECURSIVE inOrder(_, _)
\* the members of a set of names, in the order of a sequence
inOrder(names, order) ==
  IF order = <<>> THEN <<>>
  ELSE (IF Head(order) \in names THEN <<Head(order)>> ELSE <<>>)
       \o inOrder(names, Tail(order))

\* "for setName in sets": the order in which this process iterates a set
iterNames(names) ==
  IF hashOrder = "insertion"
    THEN inOrder(names, <<"ivo_managed", "local">>)
    ELSE inOrder(names, <<"local", "ivo_managed">>)

\* service.isBrowseableWith(pub.render)
isBrowseableWith(service, render) == render \in {"form", "external", "fixed"}

\* lines 161-183 of iterSvcRecs: the rows of a publication that is neither
\* auxiliary nor hidden
interfaceRows(service, rec, pub) ==
  LET intfRec ==
        [sourceRD |-> rec.sourceRD,
         resId |-> rec.resId,
         renderer |-> pub.render,
         accessURL |->
           Join(<<"/", service.rd.sourceId, "/", service.id, "/", pub.render>>),
         referenceURL |-> getMetaText(service, "referenceURL", None),
         browseable |-> isBrowseableWith(service, pub.render),
         deleted |-> FALSE]
  IN  << <<"interfaces", intfRec>> >>
      \o [i \in DOMAIN iterNames(pub.sets) |->
           <<"sets", Merge([setName |-> iterNames(pub.sets)[i]], intfRec)>>]

\* rows for every publication, auxiliary and hidden ones as well
publicationRowsOfAll(service, rec) ==
  Flatten([i \in DOMAIN service.publications |->
    interfaceRows(service, rec, service.publications[i])])

\* lines 155-183 of iterSvcRecs
publicationRows(service, rec) ==
  Flatten([i \in DOMAIN service.publications |->
    IF service.publications[i].auxiliary
         \/ service.publications[i].render \in HIDDEN_RENDERERS
      THEN <<>>
      ELSE interfaceRows(service, rec, service.publications[i])])

\* what the generators do with what makeBaseRecord returned or raised:
\* SkipThis ends the generator without a row, any other exception leaves it
afterBaseRecord(base, Rows(_)) ==
  IF base.exc = "SkipThis"
    THEN PRes(None, <<>>, base.warnings, base.reports)
  ELSE IF base.exc # None
    THEN base
  ELSE PRes(None, Rows(base.val[1]), base.warnings, base.reports)

\* lines 149-187 of iterSvcRecs
serviceRows(service, rec) ==
  << <<"resources", Merge([owner |-> service.limitTo], rec)>> >>
  \o publicationRows(service, rec)
  \o iterAuthorsAndSubjects(service, rec.sourceRD, rec.resId)

\* a generator that makes the base record of any service
iterSvcRecsOfAll(service, base) ==
  afterBaseRecord(base, LAMBDA rec : serviceRows(service, rec))

\* publication.iterSvcRecs; base is what makeBaseRecord returns or raises
iterSvcRecs(service, base) ==
  IF service.publications = <<>>
    THEN PRes(None, <<>>, <<>>, <<>>)
    ELSE afterBaseRecord(base, LAMBDA rec : serviceRows(service, rec))

\* publication.iterResRecs
iterResRecs(res, base) ==
  afterBaseRecord(base,
    LAMBDA rec :
      << <<"resources",
           Merge([setName |-> "ivo_managed", renderer |-> "rcdisplay"], rec)>>,
         <<"sets",
           Merge([setName |-> "ivo_managed", renderer |-> "rcdisplay"], rec)>>
      >> \o iterAuthorsAndSubjects(res, rec.sourceRD, rec.resId))

\* lines 218-233 of iterDataRecs: the rows of a set of the registration
registrationRows(res, rec, setName) ==
  LET refURL == getMetaText(res, "referenceURL", None)
  IN  << <<"sets",
           Merge([setName |-> setName, renderer |-> "rcdisplay"], rec)>> >>
      \o (IF setName = "local"
            THEN << <<"interfaces",
                      [sourceRD |-> rec.sourceRD,
                       resId |-> rec.resId,
                       renderer |-> "rcdisplay",
                       accessURL |-> IF refURL \notin {None, ""}
                                       THEN refURL \o "?tapinfo=True"
                                       ELSE None,
                       referenceURL |-> refURL,
                       browseable |-> FALSE,
                       deleted |-> FALSE]>> >>
            ELSE <<>>)

\* publication.iterDataRecs
iterDataRecs(res, base) ==
  afterBaseRecord(base,
    LAMBDA rec :
      << <<"resources", rec>> >>
      \o Flatten([i \in DOMAIN iterNames(res.registration.sets) |->
           registrationRows(res, rec, iterNames(res.registration.sets)[i])])
      \o iterAuthorsAndSubjects(res, rec.sourceRD, rec.resId))

RECURSIVE lastOfDict(_, _)
\* iterSvcRecs, lines 170-183: the "sets" rows of a publication are the
\* dictionary of its "interfaces" row (the copy made at line 181 is thrown
\* away); the position of the last row that is the dictionary of row i
lastOfDict(yielded, i) ==
  IF i < Len(yielded) /\ yielded[i + 1][1] = "sets"
    THEN lastOfDict(yielded, i + 1)
    ELSE i

\* the positions of the rows of a table
rowsAt(yielded, table) == {i \in DOMAIN yielded : yielded[i][1] = table}

\* iterDataRecs, lines 217-221: the "resources" row is rec, which gets the
\* set name and the renderer of every set afterwards; the "sets" rows are
\* copies.  The record of a row once the generator is at its end.
collectedRecord(iterator, yielded, i) ==
  CASE iterator = "iterSvcRecs" /\ yielded[i][1] \in {"interfaces", "sets"} ->
         yielded[lastOfDict(yielded, i)][2]
    [] iterator = "iterDataRecs" /\ yielded[i][1] = "resources"
         /\ rowsAt(yielded, "sets") # {} ->
         yielded[CHOOSE j \in rowsAt(yielded, "sets") :
                   \A k \in rowsAt(yielded, "sets") : k <= j][2]
    [] OTHER -> yielded[i][2]

\* list(generator): the rows yielded, each with its record as it is when
\* the generator has ended
collect(iterator, yielded) ==
  [i \in DOMAIN yielded |->
    <<yielded[i][1], collectedRecord(iterator, yielded, i)>>]

\* the metadata of the resources that are published
metaPublished(identifier) ==
  Merge(
    [k \in {"identifier", "subject", "description", "referenceURL", "creator",
            "recTimestamp"} |->
      CASE k = "identifier" -> <<MetaValue(identifier)>>
        [] k = "subject" -> <<MetaValue("stars"), MetaValue("galaxies")>>
        [] k = "description" -> <<MetaValue("A published resource")>>
        [] k = "referenceURL" -> <<MetaValue("http://dc.example.org/info")>>
        [] k = "creator" ->
             <<MetaValueWith("", One("name", "Doe, J.; Roe, R.; et al.")),
               MetaValueWith("", One("name", "Poe, E."))>>
        [] k = "recTimestamp" -> <<MetaValue("2019-01-01T00:00:00")>>],
    metaRich)

PublishedMetas ==
  { metaPublished("ivo://x-test/res"),
    withoutKey(metaPublished("ivo://x-test/res"), "recTimestamp"),
    withoutKey(metaPublished("ivo://x-test/res"), "sia.type"),
    metaPublished("ivo://elsewhere/res"),
    withoutKey(metaPublished("ivo://elsewhere/res"), "subject"),
    withoutKey(metaPublished("ivo://elsewhere/res"), "sia.type"),
    metaPublished("ivo://x-unregistred/res"),
    Merge(One("i-am-sure", "yes"), metaPublished("ivo://x-unregistred/res")) }

\* what is published has an owner (limitTo) and, for tables and data, a
\* registration with its sets
Published(kind, meta, publications, tables, sets) ==
  [cls |-> kind[1], resType |-> kind[2], id |-> "res", rd |-> rdA,
   meta |-> Merge(IF kind[3] = None THEN NoMeta ELSE One("resType", kind[3]),
              meta),
   publications |-> publications, inputKeys |-> <<>>, tables |-> tables,
   coverageURL |-> "http://dc.example.org/res/coverage",
   limitTo |-> None, registration |-> [sets |-> sets]]

\* the publication lists of what is published: none, one that becomes an
\* interface in two sets, and one with an auxiliary and a hidden one more
PublishedLists ==
  { <<>>,
    << Publication("siap.xml", {"ivo_managed", "local"}, FALSE,
         URL("http", HTTP_SERVER, "svc/long/siap.xml", <<"?">>), <<>>,
         pubMeta("sia")) >>,
    << Publication("form", {"local"}, FALSE,
         URL("http", HTTP_SERVER, "svc/q/form", <<>>), <<>>, pubMeta("form")),
       Publication("scs.xml", {"ivo_managed"}, TRUE,
         URL("http", HTTP_SERVER, "svc/q/scs.xml", <<>>), <<>>,
         pubMeta("scs-aux")),
       Publication("availability", {"ivo_managed"}, FALSE,
         URL("http", HTTP_SERVER, "svc/q/availability", <<>>), <<>>,
         pubMeta("vosi")) >> }

\* the services iterSvcRecs is run on
PublishedServices ==
  { Published(<<"Service", None, "catalogService">>, meta, pubs, <<>>, {}) :
      meta \in PublishedMetas, pubs \in PublishedLists }

\* the resource records iterResRecs is run on
PublishedResRecs ==
  { Published(<<"ResRec", None, "organization">>, meta, pubs, <<>>, {}) :
      meta \in PublishedMetas, pubs \in {p \in PublishedLists : Len(p) < 2} }

\* the tables iterDataRecs is run on
PublishedTables ==
  { Published(<<"TableDef", "table", None>>, meta, <<>>,
      <<TableDef("S1.Main", rdA, <<>>, FALSE)>>, sets) :
      meta \in PublishedMetas, sets \in SetNameSets }

\* the threads that build records at the same time
Callers == {"t1", "t2"}

\* a thread that is not in _loadDependencies
NoCall == [pc |-> "idle", rd |-> None, deps |-> <<>>]

\* no call of updateServiceList is under way
NoUpdate == [pc |-> "idle"]

(***************************************************************************)
(* The state machine.  Each action is one call into the package; it leaves *)
(* what it returned in its own variables and clears those of the others.   *)
(***************************************************************************)
vars ==
  <<config, VALIDATING, hashOrder, cached, queries, loadedRDs, cachedAtCall,
    theResob, theSetNames, doc, prevDoc, theFormat, resobs, recs, errors, listPc,
    thePub, capResult, ifaceResult, theIterator, keepTimestamp, rows, collected,
    callers, update, connection, durable, notified, clock>>

process == <<config, VALIDATING, hashOrder>>

cache == <<cached, queries, loadedRDs>>

published == <<theIterator, keepTimestamp, rows, collected>>

database == <<update, connection, durable, notified, clock>>

Init ==
  /\ config \in Configs
  /\ VALIDATING \in BOOLEAN
  /\ hashOrder \in {"insertion", "reversed"}
  /\ cached = {}
  /\ queries = [rd \in RDs |-> 0]
  /\ loadedRDs = {}
  /\ cachedAtCall = {}
  /\ theResob = <<>>
  /\ theSetNames = {}
  /\ doc = <<>>
  /\ prevDoc = <<>>
  /\ theFormat = None
  /\ resobs = <<>>
  /\ recs = <<>>
  /\ errors = <<>>
  /\ listPc = "idle"
  /\ thePub = <<>>
  /\ capResult = <<>>
  /\ ifaceResult = <<>>
  /\ theIterator = None
  /\ keepTimestamp = FALSE
  /\ rows = <<>>
  /\ collected = <<>>
  /\ callers = [c \in Callers |-> NoCall]
  /\ update = NoUpdate
  /\ connection = {}
  /\ durable = {}
  /\ notified = <<>>
  /\ clock = 1

\* no call is under way and no result is held
idle ==
  /\ listPc = "idle"
  /\ doc = <<>>
  /\ thePub = <<>>
  /\ rows = <<>>
  /\ \A c \in Callers : callers[c] = NoCall

noList == /\ resobs' = <<>> /\ recs' = <<>> /\ errors' = <<>> /\ listPc' = "idle"

noRecord == /\ doc' = <<>> /\ prevDoc' = <<>> /\ cachedAtCall' = {}

noPub == /\ thePub' = <<>> /\ capResult' = <<>> /\ ifaceResult' = <<>>

noRows ==
  /\ theIterator' = None
  /\ keepTimestamp' = FALSE
  /\ rows' = <<>>
  /\ collected' = <<>>

\* dependencies that are asked for at every build
loadDependenciesAnew(res) ==
  LET rdId == res.rd.sourceId
  IN  IF ~ loadsDependencies(res) THEN UNCHANGED cache
      ELSE /\ cached' = cached \cup {rdId}
           /\ queries' = [queries EXCEPT ![rdId] = @ + 1]
           /\ loadedRDs' = loadedRDs \cup Range(getDependencies(rdId))

\* ResourceMaker._loadDependencies(resob), when the build gets to it
loadDependencies(res) ==
  LET rdId == res.rd.sourceId
  IN  IF ~ loadsDependencies(res) THEN UNCHANGED cache
      ELSE /\ cached' = cached \cup {rdId}
           /\ queries' = IF rdId \in cached THEN queries
                         ELSE [queries EXCEPT ![rdId] = @ + 1]
           /\ loadedRDs' = loadedRDs \cup Range(getDependencies(rdId))

\* the metadata prefixes and the builders of their records
Formats == {"oai_dc", "ivo_vor"}

makeRecord(format, res, names) ==
  IF format = "ivo_vor"
    THEN getVOResourceElement(res, names)
    ELSE getDCResourceElement(res, names)

\* capabilities.getCapabilityElement(publication), publication.parent
\* being parent
GetCapability(publication, parent) ==
  /\ idle
  /\ thePub' = <<publication>>
  /\ theResob' = <<parent>>
  /\ capResult' = <<getCapabilityElement(publication, parent)>>
  /\ ifaceResult' = <<>>
  /\ theSetNames' = {}
  /\ theFormat' = None
  /\ noRecord /\ noList
  /\ UNCHANGED <<process, database, cache, published, callers>>

\* _getInterfaceMaker(publication.render)(publication)
MakeInterface(publication, parent) ==
  /\ idle
  /\ thePub' = <<publication>>
  /\ theResob' = <<parent>>
  /\ ifaceResult' =
       <<callInterfaceMaker(getInterfaceMaker(publication.render),
           publication, parent)>>
  /\ capResult' = <<>>
  /\ theSetNames' = {}
  /\ theFormat' = None
  /\ noRecord /\ noList
  /\ UNCHANGED <<process, database, cache, published, callers>>

\* getVOResourceElement(res, names)
BuildVOResource(res, names) ==
  /\ idle
  /\ theResob' = <<res>>
  /\ theSetNames' = names
  /\ theFormat' = "ivo_vor"
  /\ doc' = <<getVOResourceElement(res, names)>>
  /\ prevDoc' = <<>>
  /\ cachedAtCall' = cached
  /\ loadDependencies(res)
  /\ noPub /\ noList
  /\ UNCHANGED <<process, database, published, callers>>

\* getDCResourceElement(res, names)
BuildDCResource(res, names) ==
  /\ idle
  /\ theResob' = <<res>>
  /\ theSetNames' = names
  /\ theFormat' = "oai_dc"
  /\ doc' = <<getDCResourceElement(res, names)>>
  /\ prevDoc' = <<>>
  /\ cachedAtCall' = cached
  /\ noPub /\ noList
  /\ UNCHANGED <<process, database, cache, published, callers>>

\* the same call once more, on the resource and set names of the last one
BuildAgain ==
  /\ doc # <<>>
  /\ prevDoc = <<>>
  /\ prevDoc' = doc
  /\ doc' = <<makeRecord(theFormat, theResob[1], theSetNames)>>
  /\ IF theFormat = "ivo_vor"
       THEN loadDependencies(theResob[1])
       ELSE UNCHANGED cache
  /\ UNCHANGED <<process, database, cachedAtCall, theResob, theSetNames, theFormat,
                 resobs, recs, errors, listPc, thePub, capResult, ifaceResult,
                 published, callers>>

\* the exception classes raised in the package; all derive from Exception
Exceptions ==
  {"NoMetaKey", "ReportableError", "KeyError", "STCSParseError",
   "AttributeError", "NotImplementedError", "ValueError"}

\* a handler that takes a missing meta key unless VALIDATING
isNoMetaKeyUnlessValidating(exc) == exc = "NoMetaKey" /\ ~ VALIDATING

\* a handler that takes nothing for a missing meta key
neverNoMetaKey(exc) == FALSE

\* a handler that takes a missing meta key only
onlyNoMetaKey(exc) == exc = "NoMetaKey"

\* "except base.NoMetaKey" (line 362)
isNoMetaKey(exc) == exc = "NoMetaKey"

\* "except Exception" (line 367)
isException(exc) == exc \in Exceptions

\* get[DC|VO]ListRecordsElement(resobs, names): recs = OAI.ListRecords()
ListStart(format, names) ==
  /\ idle
  /\ theFormat' = format
  /\ theSetNames' = names
  /\ resobs' = <<>>
  /\ recs' = <<El("OAI.ListRecords")>>
  /\ errors' = <<>>
  /\ listPc' = "loop"
  /\ theResob' = <<>>
  /\ noRecord /\ noPub
  /\ UNCHANGED <<process, database, cache, published, callers>>

\* what one turn of "for resob in resobs" (lines 360-369) does with what
\* makeRecord returned or raised: the record is added, or the exception is
\* reported; the errors are pairs of the position of the record and the
\* message
handleRecord(made, at) ==
  LET reported == [i \in DOMAIN made.reports |-> <<at, made.reports[i]>>]
  IN  IF made.exc = None
        THEN /\ recs' = <<WithKids(recs[1], made.val)>>
             /\ errors' = errors \o reported
             /\ listPc' = listPc
      ELSE IF isNoMetaKey(made.exc)
        THEN /\ recs' = recs
             /\ errors' = errors \o reported \o
                  << <<at, "Cannot create registry record: meta missing">> >>
             /\ listPc' = listPc
      ELSE IF isException(made.exc)
        THEN /\ recs' = recs
             /\ errors' = errors \o reported \o
                  << <<at, "Cannot create registry record">> >>
             /\ listPc' = listPc
      ELSE /\ recs' = <<>>
           /\ errors' = errors \o reported
           /\ listPc' = "raised"

\* one turn of "for resob in resobs"
ListStep(resob) ==
  /\ listPc = "loop"
  /\ Len(resobs) < MaxList
  /\ resobs' = Append(resobs, resob)
  /\ IF theFormat = "ivo_vor"
       THEN loadDependencies(resob)
       ELSE UNCHANGED cache
  /\ handleRecord(makeRecord(theFormat, resob, theSetNames), Len(resobs) + 1)
  /\ UNCHANGED <<process, database, cachedAtCall, theResob, theSetNames, theFormat,
                 doc, prevDoc, thePub, capResult, ifaceResult,
                 published, callers>>

\* "return recs" (line 370)
ListReturn ==
  /\ listPc = "loop"
  /\ listPc' = "done"
  /\ UNCHANGED <<process, database, cache, cachedAtCall, theResob, theSetNames,
                 theFormat, doc, prevDoc, resobs, recs, errors, thePub,
                 capResult, ifaceResult, published, callers>>

\* a row generator of publication.py, consumed to its end; the base record
\* is made (and the dependencies are loaded) when the generator gets to
\* makeBaseRecord and the resource validates
Iterate(iterator, res, keep, made) ==
  /\ idle
  /\ theResob' = <<res>>
  /\ theIterator' = iterator
  /\ keepTimestamp' = keep
  /\ rows' = <<made>>
  /\ collected' = collect(iterator, made.val)
  /\ IF validateStructure(res).exc = None
          /\ (iterator = "iterSvcRecs" => res.publications # <<>>)
       THEN loadDependencies(res)
       ELSE UNCHANGED cache
  /\ theSetNames' = {}
  /\ theFormat' = None
  /\ noRecord /\ noPub /\ noList
  /\ UNCHANGED <<process, database, callers>>

\* list(iterSvcRecs(service, keepTimestamp))
IterSvcRecs(service, keep) ==
  Iterate("iterSvcRecs", service, keep,
    iterSvcRecs(service,
      makeBaseRecord(service, keep,
        getVOResourceElement(service, defaultSet))))

\* list(iterResRecs(res, keepTimestamp))
IterResRecs(res, keep) ==
  Iterate("iterResRecs", res, keep,
    iterResRecs(res,
      makeBaseRecord(res, keep, getVOResourceElement(res, defaultSet))))

\* list(iterDataRecs(res, keepTimestamp))
IterDataRecs(res, keep) ==
  Iterate("iterDataRecs", res, keep,
    iterDataRecs(res,
      makeBaseRecord(res, keep, getVOResourceElement(res, defaultSet))))

\* the caller is done with what the call returned (or raised)
Return ==
  /\ ~ idle
  /\ listPc # "loop"
  /\ theResob' = <<>>
  /\ theSetNames' = {}
  /\ theFormat' = None
  /\ noRecord /\ noPub /\ noList /\ noRows
  /\ UNCHANGED <<process, database, cache, callers>>

Next ==
  \/ \E publication \in CapabilityPublications, parent \in Parents :
       GetCapability(publication, parent)
  \/ \E publication \in InterfacePublications,
          parent \in {p \in Parents : p.inputKeys # <<>>} :
       MakeInterface(publication, parent)
  \/ \E res \in Resources, names \in SetNameSets : BuildVOResource(res, names)
  \/ \E res \in DCResources, names \in SetNameSets :
       BuildDCResource(res, names)
  \/ BuildAgain
  \/ \E format \in Formats, names \in SetNameSets : ListStart(format, names)
  \/ \E resob \in ListResources : ListStep(resob)
  \/ ListReturn
  \/ \E service \in PublishedServices, keep \in BOOLEAN :
       IterSvcRecs(service, keep)
  \/ \E res \in PublishedResRecs, keep \in BOOLEAN : IterResRecs(res, keep)
  \/ \E res \in PublishedTables, keep \in BOOLEAN : IterDataRecs(res, keep)
  \/ Return

Spec == Init /\ [][Next]_vars

(***************************************************************************)
(* Threads in ResourceMaker._loadDependencies (builders.py, lines 400-413). *)
(* Nothing in it takes a lock; each line is a step of its thread, and the  *)
(* threads share the attribute of the RD and the database.                 *)
(***************************************************************************)
\* what the threads leave alone
noCall ==
  UNCHANGED <<cachedAtCall, theResob, theSetNames, doc, prevDoc, theFormat,
              resobs, recs, errors, listPc, thePub, capResult, ifaceResult,
              published>>

at(c, pc) == callers[c].pc = pc

\* a thread calls _loadDependencies(resob), resob.rd being rd
Enter(c, rd) ==
  /\ at(c, "idle")
  /\ callers' = [callers EXCEPT ![c] = [pc |-> "hasattr", rd |-> rd,
                                         deps |-> <<>>]]
  /\ UNCHANGED <<process, database, cache>>
  /\ noCall

\* line 407: if not hasattr(resob.rd, "cached dependencies")
CheckCached(c) ==
  /\ at(c, "hasattr")
  /\ callers' = [callers EXCEPT ![c].pc =
       IF callers[c].rd \in cached THEN "getattr" ELSE "query"]
  /\ UNCHANGED <<process, database, cache>>
  /\ noCall

\* line 408: deps = common.getDependencies(resob.rd.sourceId)
QueryDeps(c) ==
  /\ at(c, "query")
  /\ queries' = [queries EXCEPT ![callers[c].rd] = @ + 1]
  /\ callers' = [callers EXCEPT ![c].pc = "setattr",
                                ![c].deps = getDependencies(callers[c].rd)]
  /\ UNCHANGED <<process, database, cached, loadedRDs>>
  /\ noCall

\* line 409: setattr(resob.rd, "cached dependencies", deps)
StoreDeps(c) ==
  /\ at(c, "setattr")
  /\ cached' = cached \cup {callers[c].rd}
  /\ callers' = [callers EXCEPT ![c].pc = "for"]
  /\ UNCHANGED <<process, database, queries, loadedRDs>>
  /\ noCall

\* line 411: deps = getattr(resob.rd, "cached dependencies")
ReadCached(c) ==
  /\ at(c, "getattr")
  /\ callers' = [callers EXCEPT ![c].pc = "for",
                                ![c].deps = getDependencies(callers[c].rd)]
  /\ UNCHANGED <<process, database, cache>>
  /\ noCall

\* lines 412-413: for dep in deps: base.caches.getRD(dep); and the return
GetRDs(c) ==
  /\ at(c, "for")
  /\ loadedRDs' = loadedRDs \cup Range(callers[c].deps)
  /\ callers' = [callers EXCEPT ![c] = NoCall]
  /\ UNCHANGED <<process, database, cached, queries>>
  /\ noCall

NextThreads ==
  \/ \E c \in Callers, rd \in RDs : Enter(c, rd)
  \/ \E c \in Callers : CheckCached(c)
  \/ \E c \in Callers : QueryDeps(c)
  \/ \E c \in Callers : StoreDeps(c)
  \/ \E c \in Callers : ReadCached(c)
  \/ \E c \in Callers : GetRDs(c)

SpecThreads == Init /\ [][NextThreads]_vars

(***************************************************************************)
(* publication.py: RDRscRecIterator and updateServiceList.  The service     *)
(* tables (dc.resources, dc.sets, dc.interfaces, dc.subjects, dc.authors,   *)
(* dc.res_dependencies) are one set of rows [table, sourceRD, resId, ivoid, *)
(* key, deleted, recTimestamp]; dateUpdated goes with recTimestamp wherever *)
(* the code of this module writes it and is left out.                       *)
(***************************************************************************)
\* rsc.getParseOptions(validateRows=True, batchSize=20)
batchSize == 20

\* the RD of the TAP service, and one that was given by an absolute path
rdTap == RD("__system__/tap", "tap_schema")

rdAbsolute == RD("/abs/q", "s3")

\* a member of an RD: a service, a resource record or a table
memberOf(rd, id, res) == [res EXCEPT !.rd = rd, !.id = id]

\* a table of an RD that is open to ADQL and has a registration
adqlTable(rd, id, identifier, sets) ==
  Merge([adql |-> TRUE],
    memberOf(rd, id,
      Published(<<"TableDef", "table", None>>, metaPublished(identifier),
        <<>>, <<TableDef("S1.Main", rd, <<>>, FALSE)>>, sets)))

\* a service of an RD with the publications of PublishedLists
serviceOf(rd, id, meta, publications) ==
  memberOf(rd, id,
    Published(<<"Service", None, "catalogService">>, meta, publications,
      <<>>, {}))

\* the publication list with an image service in two sets
siapList ==
  << Publication("siap.xml", {"ivo_managed", "local"}, FALSE,
       URL("http", HTTP_SERVER, "svc/long/siap.xml", <<"?">>), <<>>,
       pubMeta("sia")) >>

\* the publication list with a form, an auxiliary and a hidden publication
formList ==
  << Publication("form", {"local"}, FALSE,
       URL("http", HTTP_SERVER, "svc/q/form", <<>>), <<>>, pubMeta("form")),
     Publication("scs.xml", {"ivo_managed"}, TRUE,
       URL("http", HTTP_SERVER, "svc/q/scs.xml", <<>>), <<>>,
       pubMeta("scs-aux")),
     Publication("availability", {"ivo_managed"}, FALSE,
       URL("http", HTTP_SERVER, "svc/q/availability", <<>>), <<>>,
       pubMeta("vosi")) >>

\* the source token of the grammar: an RD with what it defines
SourceToken(rd, services, resRecs, tables, dds) ==
  [sourceId |-> rd.sourceId, services |-> services, resRecs |-> resRecs,
   tables |-> tables, dds |-> dds]

\* the RDs updateServiceList is run on.  "rdA" has a service and a table
\* that TAP serves, "rdA-" is the same RD once the service is gone; "rdB"
\* has three services that can be published and one without a subject,
\* "rdB-" a service without sia.type, "rdB!" a resource record of an
\* authority nobody registered
SourceTokenNames ==
  {"rdA", "rdA-", "rdB", "rdB-", "rdB!", "tap", "/abs"}

sourceTokens ==
  [name \in SourceTokenNames |->
    CASE name = "rdA" ->
           SourceToken(rdA,
             <<serviceOf(rdA, "svc", metaPublished("ivo://x-test/res"),
                 formList)>>,
             <<>>,
             <<adqlTable(rdA, "main", "ivo://x-test/main", {"ivo_managed"})>>,
             <<>>)
      [] name = "rdA-" ->
           SourceToken(rdA, <<>>, <<>>,
             <<adqlTable(rdA, "main", "ivo://x-test/main", {"ivo_managed"})>>,
             <<>>)
      [] name = "rdB" ->
           SourceToken(rdB,
             <<serviceOf(rdB, "s1", metaPublished("ivo://x-test/s1"),
                 siapList),
               serviceOf(rdB, "s2", metaPublished("ivo://x-test/s2"),
                 siapList),
               serviceOf(rdB, "s3", metaPublished("ivo://x-test/s3"),
                 siapList),
               serviceOf(rdB, "s4",
                 withoutKey(metaPublished("ivo://x-test/gone"), "subject"),
                 siapList)>>,
             <<>>, <<>>, <<>>)
      [] name = "rdB-" ->
           SourceToken(rdB,
             <<serviceOf(rdB, "s1",
                 withoutKey(metaPublished("ivo://x-test/s1"), "sia.type"),
                 siapList)>>,
             <<>>, <<>>, <<>>)
      [] name = "rdB!" ->
           SourceToken(rdB, <<>>,
             <<memberOf(rdB, "org",
                 Published(<<"ResRec", None, "organization">>,
                   metaPublished("ivo://x-unregistred/res"), <<>>, <<>>,
                   {}))>>,
             <<>>, <<>>)
      [] name = "tap" ->
           SourceToken(rdTap, <<>>, <<>>,
             <<adqlTable(rdTap, "tables", "ivo://x-test/tap",
                 {"ivo_managed"})>>,
             <<>>)
      [] OTHER -> SourceToken(rdAbsolute, <<>>, <<>>, <<>>, <<>>)]

\* the resources of a source token in the order _iterRows takes them, each
\* with the attribute it comes from
resourcesOf(sourceToken) ==
  [i \in DOMAIN sourceToken.services |->
    <<"services", sourceToken.services[i]>>]
  \o [i \in DOMAIN sourceToken.resRecs |->
       <<"resRecs", sourceToken.resRecs[i]>>]
  \o [i \in DOMAIN sourceToken.tables |-> <<"tables", sourceToken.tables[i]>>]
  \o [i \in DOMAIN sourceToken.dds |-> <<"dds", sourceToken.dds[i]>>]

\* "if res.registration": a table or data item without a registration has
\* None there, which is <<>> here
isRegistered(res) == DOMAIN res.registration # {}

\* lines 250-264 of _iterRows: the generator a resource is handed to;
\* tables and data only when they have a registration
generatorOf(kind, res, base) ==
  CASE kind = "services" -> iterSvcRecs(res, base)
    [] kind = "resRecs" -> iterResRecs(res, base)
    [] OTHER -> IF ~ isRegistered(res)
                  THEN PRes(None, <<>>, <<>>, <<>>)
                  ELSE iterDataRecs(res, base)

\* whether the generator of a resource gets to build its record
buildsRecord(kind, res) ==
  /\ validateStructure(res).exc = None
  /\ kind = "services" => res.publications # <<>>
  /\ kind \in {"tables", "dds"} => isRegistered(res)

\* rows of a generator followed by the rows of the generators after it
followedBy(item, first, rest) ==
  [exc |-> rest.exc, val |-> first.val \o rest.val,
   warnings |-> first.warnings \o rest.warnings,
   reports |-> first.reports \o rest.reports,
   reached |-> <<item>> \o rest.reached]

RECURSIVE chainRows(_, _)
RECURSIVE chainedAfter(_, _, _)
\* lines 250-264: the generators of the resources one after the other; an
\* exception of one ends the iteration.  reached is the resources whose
\* generator ran
chainRows(items, keep) ==
  IF items = <<>>
    THEN [exc |-> None, val |-> <<>>, warnings |-> <<>>, reports |-> <<>>,
          reached |-> <<>>]
    ELSE chainedAfter(items, keep,
           generatorOf(items[1][1], items[1][2],
             makeBaseRecord(items[1][2], keep,
               getVOResourceElement(items[1][2], defaultSet))))

chainedAfter(items, keep, first) ==
  IF first.exc # None
    THEN [exc |-> first.exc, val |-> first.val, warnings |-> first.warnings,
          reports |-> first.reports, reached |-> <<items[1]>>]
    ELSE followedBy(items[1], first, chainRows(Tail(items), keep))

RECURSIVE tapTimestamps(_)
\* lines 272-283: "update" when a table that TAP serves has a registration
\* with a set other than none at all (sets < {"local"} is true of the empty
\* set only), AttributeError when such a table has no registration
tapTimestamps(tables) ==
  IF tables = <<>> THEN None
  ELSE IF ~ tables[1].adql THEN tapTimestamps(Tail(tables))
  ELSE IF ~ isRegistered(tables[1]) THEN "AttributeError"
  ELSE IF tables[1].registration.sets # {} THEN "update"
  ELSE tapTimestamps(Tail(tables))

\* the end of _iterRows, after the generators
afterGenerators(sourceToken, chained) ==
  LET tap == IF sourceToken.sourceId = "__system__/tap" THEN None
             ELSE tapTimestamps(sourceToken.tables)
  IN  IF chained.exc # None THEN Merge([tap |-> FALSE], chained)
      ELSE IF tap = "AttributeError"
        THEN Merge([tap |-> FALSE, exc |-> "AttributeError"], chained)
      ELSE Merge([tap |-> tap = "update"], chained)

\* an iterator that yields rows whatever the grammar says of unpublishing
iterRowsOfUnpublished(sourceToken, keep, unpublish) ==
  afterGenerators(sourceToken, chainRows(resourcesOf(sourceToken), keep))

\* RDRscRecIterator._iterRows with grammar.keepTimestamp and
\* grammar.unpublish: [exc, val, warnings, reports, reached, tap], tap
\* saying whether the timestamps of the TAP RD were updated
RDRscRecIterator_iterRows(sourceToken, keep, unpublish) ==
  IF unpublish
    THEN [exc |-> None, val |-> <<>>, warnings |-> <<>>, reports |-> <<>>,
          reached |-> <<>>, tap |-> FALSE]
    ELSE afterGenerators(sourceToken,
           chainRows(resourcesOf(sourceToken), keep))

\* a time of a record as the database has it: the model's clock for "now",
\* and 0 for the time in the recTimestamp meta, which is before all of them
timeOf(text, now) == IF text = "now" THEN now ELSE 0

\* a row of a generator as the row of its table
tableRow(row, now) ==
  LET table == row[1]
      rec == row[2]
  IN  [table |-> table, sourceRD |-> rec.sourceRD, resId |-> rec.resId,
       ivoid |-> IF table = "resources" THEN rec.ivoid ELSE None,
       key |-> CASE table = "sets" -> <<rec.setName, rec.renderer>>
                 [] table = "interfaces" -> <<rec.renderer>>
                 [] table = "subjects" -> <<rec.subject>>
                 [] table = "authors" -> <<rec.author>>
                 [] OTHER -> <<>>,
       deleted |-> FALSE,
       recTimestamp |-> IF table = "resources"
                          THEN timeOf(rec.recTimestamp, now) ELSE 0]

\* table.addRow: a row takes the place of the row with its primary key
addRow(tableRows, r) ==
  {x \in tableRows :
     ~ (x.table = r.table /\ x.sourceRD = r.sourceRD /\ x.resId = r.resId
        /\ x.key = r.key)} \cup {r}

RECURSIVE feed(_, _, _)
\* the feeder: the rows go into their tables one after the other
feed(tableRows, rowsFed, now) ==
  IF rowsFed = <<>> THEN tableRows
  ELSE feed(addRow(tableRows, tableRow(rowsFed[1], now)), Tail(rowsFed), now)

\* the newSource script of //services#tables (servicelist.
\* cleanServiceTablesFor runs it): what came from the RD is marked deleted
\* in dc.resources and dc.sets, with its recTimestamp left alone, and
\* removed from the other tables
newSource(tableRows, sourceId) ==
  {IF r.sourceRD = sourceId /\ r.table \in {"resources", "sets"}
     THEN [r EXCEPT !.deleted = TRUE] ELSE r :
   r \in {x \in tableRows :
            \/ x.sourceRD # sourceId
            \/ x.table \in {"resources", "sets", "res_dependencies"}}}

\* rsc.makeData(dd, forceSource=rd, parseOptions, connection): newSource,
\* then the rows of the grammar in batches of batchSize; what was not yet
\* flushed when the grammar raises is not written, and makeData leaves the
\* transaction of the connection it was given to its caller
makeData(tableRows, sourceToken, grammar, now) ==
  LET written ==
        IF grammar.exc = None THEN grammar.val
        ELSE SubSeq(grammar.val, 1,
               (Len(grammar.val) \div batchSize) * batchSize)
  IN  [exc |-> grammar.exc,
       rows |-> feed(newSource(tableRows, sourceToken.sourceId), written,
                  now),
       nAffected |-> Len(written)]

\* rsc.makeData(depDD, forceSource=rd, connection): the dependencies of
\* the RD take the place of those dc.res_dependencies had for it
makeDependencies(tableRows, sourceId) ==
  {x \in tableRows :
     ~ (x.table = "res_dependencies" /\ x.sourceRD = sourceId)}
  \cup {[table |-> "res_dependencies", sourceRD |-> sourceId,
         resId |-> None, ivoid |-> None, key |-> <<dep>>,
         deleted |-> FALSE, recTimestamp |-> 0] :
        dep \in Range(getDependencies(sourceId))}

\* lines 278-282: UPDATE dc.resources SET dateupdated=CURRENT_TIMESTAMP,
\* rectimestamp=CURRENT_TIMESTAMP WHERE sourcerd='__system__/tap'
updateTapTimestamps(tableRows, now) ==
  {IF r.table = "resources" /\ r.sourceRD = "__system__/tap"
     THEN [r EXCEPT !.recTimestamp = now] ELSE r : r \in tableRows}

\* select ivoid from dc.resources where sourcerd=%(rdid)s and deleted
deletedRecords(tableRows, sourceId) ==
  {r.ivoid : r \in {x \in tableRows :
     x.table = "resources" /\ x.sourceRD = sourceId /\ x.deleted}}

\* a bump of every identifier of the RD that is deleted
bumpDeletedRecords(tableRows, sourceId, oldDeletedRecords, now) ==
  {IF r.table = "resources" /\ r.ivoid \in deletedRecords(tableRows, sourceId)
     THEN [r EXCEPT !.recTimestamp = now] ELSE r : r \in tableRows}

\* bumpNewDeletedRecords of getDeletedIdentifiersUpdater: update
\* dc.resources set rectimestamp=now where ivoid in toBump
bumpNewDeletedRecords(tableRows, sourceId, oldDeletedRecords, now) ==
  LET toBump == deletedRecords(tableRows, sourceId) \ oldDeletedRecords
  IN  {IF r.table = "resources" /\ r.ivoid \in toBump
         THEN [r EXCEPT !.recTimestamp = now] ELSE r : r \in tableRows}

RECURSIVE loadedBy(_, _)
\* ResourceMaker._loadDependencies for the resources whose record was
\* built, one after the other: [cached, queries, loadedRDs] afterwards
loadedBy(items, c) ==
  IF items = <<>> THEN c
  ELSE LET res == items[1][2]
           rdId == res.rd.sourceId
       IN  IF ~ (buildsRecord(items[1][1], res) /\ loadsDependencies(res))
             THEN loadedBy(Tail(items), c)
             ELSE loadedBy(Tail(items),
                    [cached |-> c.cached \cup {rdId},
                     queries |->
                       IF rdId \in c.cached \/ rdId \notin DOMAIN c.queries
                         THEN c.queries
                         ELSE [c.queries EXCEPT ![rdId] = @ + 1],
                     loadedRDs |->
                       c.loadedRDs \cup Range(getDependencies(rdId))])

\* an updateServiceList that stops at every RD it cannot publish
afterExceptionOnlyRaise(exc, onlyWarn) ==
  IF exc \in {"MetaValidationError", "NoMetaKey"}
    THEN [notify |-> None, raised |-> "ReportableError"]
    ELSE [notify |-> "error", raised |-> exc]

\* lines 373-395 of updateServiceList: what the except clauses and the
\* check of msg make of an exception of makeData: what base.ui is told, and
\* what is raised
afterException(exc, onlyWarn) ==
  IF exc \in {"MetaValidationError", "NoMetaKey"}
    THEN IF onlyWarn
           THEN [notify |-> "warning", raised |-> None]
           ELSE [notify |-> None, raised |-> "ReportableError"]
    ELSE [notify |-> "error", raised |-> exc]

\* the lists of RDs updateServiceList is called with
RDLists == SeqsUpTo(SourceTokenNames, MaxRDs)

\* what the calls of updateServiceList leave alone
noBuild ==
  UNCHANGED <<process, cachedAtCall, theResob, theSetNames, doc, prevDoc,
              theFormat, resobs, recs, errors, listPc, thePub, capResult,
              ifaceResult, published, callers>>

\* rd.sourceId.startswith("/"), on the RDs of the model
isAbsolute(sourceId) == sourceId \in {"/abs/q"}

\* the RD the loop of updateServiceList is at
rdAt == sourceTokens[update.rds[update.at]]

\* updateServiceList(rds, metaToo, None, onlyWarn, keepTimestamp,
\* unpublish), lines 336-359: up to the loop, with a connection of its own.
\* ex is the exception makeData left the try block of this RD with.
\* durableAtCall and aborted are the history of the call: the tables as
\* committed when it began, and the RDs whose publication was aborted
Called(rds, metaToo, onlyWarn, keep, unpublish) ==
  /\ clock + 2 * Len(rds) <= MaxClock
  /\ update' = [pc |-> IF metaToo THEN "raised" ELSE "for",
                raised |-> IF metaToo THEN "NotImplementedError" ELSE None,
                ex |-> None,
                rds |-> rds, at |-> 1, onlyWarn |-> onlyWarn,
                keepTimestamp |-> keep, unpublish |-> unpublish,
                recordsWritten |-> 0, oldDeletedRecords |-> {},
                toBump |-> {}, yielded |-> 0, tap |-> FALSE,
                committed |-> <<>>, aborted |-> {},
                durableAtCall |-> durable]
  /\ connection' = durable
  /\ notified' = <<>>
  /\ UNCHANGED <<durable, clock, cache>>
  /\ noBuild

\* main calls updateServiceList when no call is under way
UpdateServiceList ==
  /\ update.pc = "idle"
  /\ \E rds \in RDLists, metaToo, onlyWarn, keep, unpublish \in BOOLEAN :
       Called(rds, metaToo, onlyWarn, keep, unpublish)

\* lines 361-366: the next RD of the list and its deletedUpdater
GetDeletedIdentifiersUpdater ==
  /\ update.pc = "for"
  /\ update.at <= Len(update.rds)
  /\ update' =
       IF isAbsolute(rdAt.sourceId)
         THEN [update EXCEPT !.pc = "raised", !.raised = "Error",
                 !.ex = None]
         ELSE [update EXCEPT !.pc = "try", !.ex = None,
                 !.oldDeletedRecords =
                   deletedRecords(connection, rdAt.sourceId)]
  /\ UNCHANGED <<connection, durable, notified, clock, cache>>
  /\ noBuild

\* lines 368-396, when makeData has returned or raised: the second
\* makeData, or the except clauses and the check of msg
Written(grammar, data) ==
  LET sourceId == rdAt.sourceId
      handled == afterException(data.exc, update.onlyWarn)
      tables == IF data.exc = None
                  THEN makeDependencies(data.rows, sourceId)
                  ELSE data.rows
      loaded == loadedBy(grammar.reached,
                  [cached |-> cached, queries |-> queries,
                   loadedRDs |-> loadedRDs])
  IN  /\ connection' = IF grammar.tap
                         THEN updateTapTimestamps(tables, clock)
                         ELSE tables
      /\ durable' = IF grammar.tap
                      THEN updateTapTimestamps(durable, clock)
                      ELSE durable
      /\ update' =
           [update EXCEPT
              !.yielded = Len(grammar.val),
              !.tap = grammar.tap,
              !.recordsWritten =
                IF data.exc = None THEN @ + data.nAffected ELSE @,
              !.pc = IF data.exc = None THEN "bump"
                     ELSE IF handled.raised # None THEN "raised"
                     ELSE "for",
              !.raised = IF data.exc = None THEN None ELSE handled.raised,
              !.ex = data.exc,
              !.at = IF data.exc # None /\ handled.raised = None
                       THEN @ + 1 ELSE @,
              !.aborted = IF data.exc = None THEN @ ELSE @ \cup {sourceId}]
      /\ notified' =
           IF data.exc # None /\ handled.notify # None
             THEN Append(notified, <<handled.notify, sourceId>>)
             ELSE notified
      /\ cached' = loaded.cached
      /\ queries' = loaded.queries
      /\ loadedRDs' = loaded.loadedRDs
      /\ clock' = clock + 1

\* line 365: the grammar iterates the RD while makeData feeds the tables
Fed(grammar) == Written(grammar, makeData(connection, rdAt, grammar, clock))

\* lines 364-396 of updateServiceList without lines 370-371: the try block
\* up to the second makeData, and what follows when it raises
MakeData ==
  /\ update.pc = "try"
  /\ Fed(RDRscRecIterator_iterRows(rdAt, update.keepTimestamp,
           update.unpublish))
  /\ noBuild

\* lines 370-371: deletedUpdater() and connection.commit()
BumpNewDeletedRecords ==
  /\ update.pc = "bump"
  /\ connection' = bumpNewDeletedRecords(connection, rdAt.sourceId,
                     update.oldDeletedRecords, clock)
  /\ durable' = connection'
  /\ update' =
       [update EXCEPT
          !.pc = "for",
          !.at = @ + 1,
          !.toBump = deletedRecords(connection, rdAt.sourceId)
                       \ update.oldDeletedRecords,
          !.committed = Append(@, rdAt.sourceId),
          !.aborted = @ \ {rdAt.sourceId}]
  /\ clock' = clock + 1
  /\ UNCHANGED <<notified, cache>>
  /\ noBuild

\* lines 396-399: after the loop, updateMetaInDB (which writes none of the
\* tables here), the last commit and the return of recordsWritten
CommitAndReturn ==
  /\ update.pc = "for"
  /\ update.at > Len(update.rds)
  /\ durable' = connection
  /\ update' = [update EXCEPT !.pc = "returned"]
  /\ UNCHANGED <<connection, notified, clock, cache>>
  /\ noBuild

\* main has what updateServiceList returned or raised, and the process
\* ends: the connection the call made is gone, and what it had not
\* committed with it; the next call is in a process that has loaded nothing
ReturnUpdate ==
  /\ update.pc \in {"returned", "raised"}
  /\ update' = NoUpdate
  /\ connection' = durable
  /\ notified' = <<>>
  /\ cached' = {}
  /\ queries' = [rd \in RDs |-> 0]
  /\ loadedRDs' = {}
  /\ UNCHANGED <<durable, clock>>
  /\ noBuild

NextUpdate ==
  \/ UpdateServiceList
  \/ GetDeletedIdentifiersUpdater
  \/ MakeData
  \/ BumpNewDeletedRecords
  \/ CommitAndReturn
  \/ ReturnUpdate

\* "dachs pub" is a process of its own, with the configuration as it
\* comes and builders.VALIDATING as the module sets it
InitUpdate ==
  /\ Init
  /\ config = [registerAlternative |-> FALSE, future |-> {}]
  /\ VALIDATING = FALSE
  /\ hashOrder = "insertion"

SpecUpdate == InitUpdate /\ [][NextUpdate]_vars

(***************************************************************************)
(* The properties.                                                         *)
(***************************************************************************)
RECURSIVE nodesOf(_)
\* the nodes of a tree
nodesOf(node) ==
  {node} \cup UNION {nodesOf(node.kids[i]) : i \in DOMAIN node.kids}

\* a list build is under way or has returned
listing == listPc \in {"loop", "done"}

\* what building the i-th record of the list alone returns or raises
built(i) == makeRecord(theFormat, resobs[i], theSetNames)

succeeded(i) == built(i).exc = None

\* C1: a list build never raises, and its list node holds exactly the
\* records whose own build succeeded, in the order of the input; a record
\* whose build raises (for missing mandatory meta or anything else) is left
\* out and changes nothing about the records before and after it.
C1_ListIsolatesFailures ==
  /\ listPc # "raised"
  /\ listing =>
       /\ Len(recs) = 1
       /\ recs[1].tag = "OAI.ListRecords"
       /\ recs[1].kids =
            Flatten([i \in DOMAIN resobs |->
              IF succeeded(i) THEN built(i).val ELSE <<>>])

\* a list of three has returned in which a record that lacks mandatory meta
\* and a record that raised something else were left out, and one was kept
C1_Witness ==
  /\ listPc = "done"
  /\ Len(resobs) = 3
  /\ built(1).exc \notin {None, "NoMetaKey"}
  /\ succeeded(2)
  /\ built(3).exc = "NoMetaKey"
  /\ Len(recs[1].kids) = 1

\* the errors reported for the i-th record of the list
errorsAt(i) == SelectSeq(errors, LAMBDA e : e[1] = i)

\* the errors the list build itself reports
recordErrors ==
  {"Cannot create registry record: meta missing",
   "Cannot create registry record"}

\* the error the list build reports for an exception
recordErrorFor(exc) ==
  IF exc = "NoMetaKey"
    THEN "Cannot create registry record: meta missing"
    ELSE "Cannot create registry record"

\* C2, as stated: in a list build, exactly one error is reported for each
\* record whose build fails, and none for a record that builds.
C2_OneErrorPerFailureOnly ==
  listing =>
    \A i \in DOMAIN resobs :
      Len(errorsAt(i)) = IF succeeded(i) THEN 0 ELSE 1

\* C2: in a list build, exactly one error of the list build itself is
\* reported for each record whose build fails, the one for missing meta when
\* that is why; none is reported for a record that builds; all other errors
\* are those of coverage profiles that were left out, and all errors are
\* about records of the list.
C2_OneRecordErrorPerFailure ==
  listing =>
    /\ \A i \in DOMAIN resobs :
         SelectSeq(errorsAt(i), LAMBDA e : e[2] \in recordErrors) =
           IF succeeded(i) THEN <<>>
           ELSE << <<i, recordErrorFor(built(i).exc)>> >>
    /\ \A k \in DOMAIN errors :
         /\ errors[k][1] \in DOMAIN resobs
         /\ errors[k][2] \in recordErrors \cup {"Coverage profile bad"}

\* a list has returned in which one record failed and another was built
\* although an error was reported for it
C2_Witness ==
  /\ listPc = "done"
  /\ \E i \in DOMAIN resobs : succeeded(i) /\ errorsAt(i) # <<>>
  /\ \E i \in DOMAIN resobs : built(i).exc = "NoMetaKey"

\* a record in the VOResource format has been built
builtVOR == doc # <<>> /\ theFormat = "ivo_vor" /\ doc[1].exc = None

\* the resource element of the record built: the child of OAI.metadata
resourceNodes ==
  {n \in nodesOf(doc[1].val[1]) : n.tag \in ResourceClasses}

\* the text of the description of a capability
descriptionOf(node) ==
  IF \E i \in DOMAIN node.kids : node.kids[i].tag = "VOR.description"
    THEN node.kids[CHOOSE i \in DOMAIN node.kids :
                     node.kids[i].tag = "VOR.description"].text
    ELSE None

\* the capabilities of a node, in order
capabilitiesIn(node) ==
  SelectSeq(node.kids, LAMBDA k : k.tag \in CapabilityClasses)

\* the renderer of the publication declares a capability maker
hasMaker(pub) == pub.render \in DOMAIN CapabilityMakers

\* an auxiliary publication whose maker declares no auxiliaryId
auxiliaryWithoutId(pub) ==
  /\ pub.auxiliary
  /\ hasMaker(pub)
  /\ CapabilityMakers[pub.render].auxiliaryId = None

\* an auxiliary publication whose maker declares an auxiliaryId
auxiliaryWithId(pub) ==
  /\ pub.auxiliary
  /\ hasMaker(pub)
  /\ CapabilityMakers[pub.render].auxiliaryId # None

\* C3: for an auxiliary publication whose capability maker declares no
\* auxiliaryId, getCapabilityElement returns nothing, and the record of the
\* resource holds no capability of that publication.
C3_NoAuxiliaryIdNoCapability ==
  /\ (capResult # <<>> /\ auxiliaryWithoutId(thePub[1])) =>
       capResult[1] = Ok(<<>>)
  /\ builtVOR =>
       \A i \in DOMAIN theResob[1].publications :
         auxiliaryWithoutId(theResob[1].publications[i]) =>
           ~ \E n \in nodesOf(doc[1].val[1]) :
               /\ n.tag \in CapabilityClasses
               /\ descriptionOf(n) =
                    getMetaText(theResob[1].publications[i], "description",
                      None)

\* a record has been built for a resource with an auxiliary publication
\* without auxiliaryId in the sets asked for and another publication, and
\* it has the capability of the other one
C3_Witness ==
  /\ builtVOR
  /\ \E i \in DOMAIN theResob[1].publications :
       /\ auxiliaryWithoutId(theResob[1].publications[i])
       /\ theResob[1].publications[i].sets \cap theSetNames # {}
  /\ \E r \in resourceNodes : Len(capabilitiesIn(r)) = 1

\* C4: for an auxiliary publication whose capability maker declares an
\* auxiliaryId, getCapabilityElement returns exactly one capability, a plain
\* VOR.capability whose standardID is that auxiliaryId and whose children are
\* the description and the interface only.
C4_AuxiliaryCapabilityIsMinimal ==
  (capResult # <<>> /\ auxiliaryWithId(thePub[1])) =>
    /\ capResult[1].exc = None
    /\ Len(capResult[1].val) = 1
    /\ capResult[1].val[1].tag = "VOR.capability"
    /\ AttrOf(capResult[1].val[1], "standardID") =
         CapabilityMakers[thePub[1].render].auxiliaryId
    /\ capResult[1].val[1].attrs =
         {<<"standardID", CapabilityMakers[thePub[1].render].auxiliaryId>>}
    /\ \A i \in DOMAIN capResult[1].val[1].kids :
         capResult[1].val[1].kids[i].tag \in
           {"VOR.description"} \cup InterfaceClasses

\* the auxiliary capability of an image service has been made: the full
\* maker would have asked for the sia.type meta, which the service lacks
C4_Witness ==
  /\ capResult # <<>>
  /\ thePub[1].auxiliary
  /\ thePub[1].render = "siap.xml"
  /\ ~ hasMeta(theResob[1], "sia.type")
  /\ capResult[1].exc = None
  /\ Len(capResult[1].val) = 1

\* the descriptions of the publications of the resource that are not
\* auxiliary and have one of the sets asked for
eligibleDescriptions ==
  LET eligible ==
        SelectSeq(theResob[1].publications,
          LAMBDA p : ~ p.auxiliary /\ p.sets \cap theSetNames # {})
  IN  [i \in DOMAIN eligible |-> getMetaText(eligible[i], "description", None)]

\* the descriptions of the publications of the resource that have none of
\* the sets asked for
disjointDescriptions ==
  {getMetaText(theResob[1].publications[i], "description", None) :
     i \in {j \in DOMAIN theResob[1].publications :
              theResob[1].publications[j].sets \cap theSetNames = {}}}

\* the descriptions of the capabilities of publications that are not
\* auxiliary, in the order of the record
plainCapabilityDescriptions(resource) ==
  LET caps ==
        SelectSeq(capabilitiesIn(resource),
          LAMBDA c : \E i \in DOMAIN theResob[1].publications :
            /\ ~ theResob[1].publications[i].auxiliary
            /\ descriptionOf(c) =
                 getMetaText(theResob[1].publications[i], "description", None))
  IN  [i \in DOMAIN caps |-> descriptionOf(caps[i])]

\* C5: the record of a service-like resource holds exactly one capability
\* for each publication that is not auxiliary and has one of the sets asked
\* for, in the order of the publications, and none for a publication that
\* has none of these sets.
C5_OneCapabilityPerEligiblePublication ==
  (builtVOR /\ theResob[1].cls = "ResRec"
     /\ getResType(theResob[1]) \in
          {"nonTabularService", "dataService", "catalogService", "registry",
           "document"}) =>
    /\ Cardinality(resourceNodes) = 1
    /\ \A r \in resourceNodes :
         /\ plainCapabilityDescriptions(r) = eligibleDescriptions
         /\ \A i \in DOMAIN capabilitiesIn(r) :
              descriptionOf(capabilitiesIn(r)[i]) \notin disjointDescriptions

\* a service has been built with one publication in the sets asked for and
\* one that is not, and it has the capability of the first only
C5_Witness ==
  /\ builtVOR
  /\ theResob[1].cls = "ResRec"
  /\ getResType(theResob[1]) = "nonTabularService"
  /\ Len(theResob[1].publications) = 2
  /\ Len(eligibleDescriptions) = 1
  /\ disjointDescriptions # {}
  /\ \E r \in resourceNodes : Len(capabilitiesIn(r)) = 1

\* the interfaces in what the last call returned
interfacesBuilt ==
  UNION {nodesOf(n) :
    n \in (IF ifaceResult # <<>> THEN Range(ifaceResult[1].val) ELSE {})
          \cup (IF capResult # <<>> THEN Range(capResult[1].val) ELSE {})
          \cup (IF doc # <<>> THEN Range(doc[1].val) ELSE {})}

\* the texts of the children of a type
textsOf(node, tag) ==
  {node.kids[i].text : i \in {j \in DOMAIN node.kids : node.kids[j].tag = tag}}

\* C8: no mirror URL of an interface equals the access URL of the
\* interface, after the rewrite to the short alias and after the URL with
\* the other protocol has been added.
C8_NoMirrorEqualsAccessURL ==
  \A n \in interfacesBuilt :
    n.tag \in InterfaceClasses =>
      textsOf(n, "VOR.mirrorURL") \cap textsOf(n, "VOR.accessURL") = {}

\* an interface has been made for a publication whose access URL was
\* rewritten to its short alias, one of whose mirror URLs is that alias and
\* was dropped, and that got the URL with the other protocol as a mirror
C8_Witness ==
  /\ ifaceResult # <<>>
  /\ ifaceResult[1].exc = None
  /\ config.registerAlternative
  /\ \E i \in DOMAIN thePub[1].mirrorURL :
       /\ Join(thePub[1].mirrorURL[i]) # Join(thePub[1].accessURL)
       /\ Join(thePub[1].mirrorURL[i]) \in
            textsOf(ifaceResult[1].val[1], "VOR.accessURL")
  /\ textsOf(ifaceResult[1].val[1], "VOR.mirrorURL") # {}

\* what the generic service maker makes of the resource built
genericService ==
  ServiceResourceMaker_makeResource(ResourceMakers[getResType(theResob[1])],
    theResob[1], theSetNames,
    asRes(capabilitiesFor(theResob[1], theSetNames))).val[1]

\* the rights and the capabilities of a resource element
rightsAndCapabilities(resource) ==
  SelectSeq(resource.kids,
    LAMBDA k : k.tag \in CapabilityClasses \cup {"VOR.rights"})

\* C6: what the catalog service maker builds has the attributes and the
\* children of what the generic service maker builds of the same resource
\* and set names, and a tableset besides; without the tableset, rights and
\* capabilities are those of the generic service.
C6_CatalogServiceExtendsService ==
  (builtVOR /\ getResType(theResob[1]) = "catalogService") =>
    /\ Cardinality(resourceNodes) = 1
    /\ \A r \in resourceNodes :
         /\ r.attrs = genericService.attrs
         /\ Len(r.kids) >= Len(genericService.kids)
         /\ SubSeq(r.kids, 1, Len(genericService.kids)) = genericService.kids
         /\ \E i \in DOMAIN r.kids : r.kids[i].tag = "VS.tableset"
         /\ rightsAndCapabilities(r) = rightsAndCapabilities(genericService)

\* C7: the record of a resource of type deleted is a header marked deleted
\* and nothing else, whatever its meta, its publications and the set names.
C7_DeletedIsTombstone ==
  (builtVOR /\ getResType(theResob[1]) = "deleted") =>
    /\ Len(doc[1].val) = 1
    /\ doc[1].val[1].tag = "OAI.record"
    /\ Len(doc[1].val[1].kids) = 1
    /\ doc[1].val[1].kids[1].tag = "OAI.header"
    /\ AttrOf(doc[1].val[1].kids[1], "status") = "deleted"

returnedTrees ==
  (IF ifaceResult # <<>> THEN Range(ifaceResult[1].val) ELSE {})
  \cup (IF capResult # <<>> THEN Range(capResult[1].val) ELSE {})
  \cup (IF doc # <<>> THEN Range(doc[1].val) ELSE {})
  \cup (IF listPc = "done" THEN Range(recs) ELSE {})

RECURSIVE emptyByType(_)
\* the emptiness of the types, written out: a relationship is empty without
\* a related resource, a security method without a standardId, anything
\* else without text and without a child that is not empty
emptyByType(node) ==
  CASE node.tag = "VOR.relationship" ->
         \A i \in DOMAIN node.kids : node.kids[i].tag # "VOR.relatedResource"
    [] node.tag = "VOR.securityMethod" ->
         \A a \in node.attrs : a[1] # "standardId"
    [] OTHER ->
         /\ node.text \in Whitespace \cup {""}
         /\ \A i \in DOMAIN node.kids : emptyByType(node.kids[i])

\* C10, as stated: no node of a tree that is returned is empty, unless its
\* type may be empty.
C10_NoEmptyNode ==
  \A tree \in returnedTrees :
    \A n \in nodesOf(tree) : n.tag \in mayBeEmpty \/ ~ emptyByType(n)

\* C10: no node below the root of a tree that is returned is empty, unless
\* its type may be empty.
C10_NoEmptyNodeBelowRoot ==
  \A tree \in returnedTrees :
    \A i \in DOMAIN tree.kids :
      \A n \in nodesOf(tree.kids[i]) :
        n.tag \in mayBeEmpty \/ ~ emptyByType(n)

\* an interface has been made for a publication without securityId: its
\* security method, empty by its own rule, was left out
C10_Witness ==
  /\ ifaceResult # <<>>
  /\ ifaceResult[1].exc = None
  /\ ~ hasMeta(thePub[1], "securityId")
  /\ \A i \in DOMAIN ifaceResult[1].val[1].kids :
       ifaceResult[1].val[1].kids[i].tag # "VOR.securityMethod"


\* C12: for a publication, auxiliary or not, whose renderer has no
\* capability maker, getCapabilityElement ends in a ReportableError and
\* returns no capability.
C12_UnknownRendererIsReportableError ==
  (capResult # <<>> /\ thePub[1].render \notin DOMAIN CapabilityMakers) =>
    /\ capResult[1].exc = "ReportableError"
    /\ capResult[1].val = <<>>

\* the interface class of the maker declared for a renderer, and
\* VS.ParamHTTP, the class of InterfaceWithParams, for any other renderer
interfaceClassFor(render) ==
  IF render \in DOMAIN InterfaceMakers
    THEN InterfaceMakers[render].interfaceClass
    ELSE "VS.ParamHTTP"

\* the interfaces among the children of a capability
interfacesIn(capability) ==
  SelectSeq(capability.kids, LAMBDA k : k.tag \in InterfaceClasses)

\* C13: making the interface of a publication never fails for its renderer:
\* the interface is of the class of the maker declared for the renderer,
\* and of the class of InterfaceWithParams when none is declared; so is the
\* first interface of a capability.
C13_InterfaceMakerOrDefault ==
  /\ ifaceResult # <<>> =>
       /\ ifaceResult[1].exc # "KeyError"
       /\ ifaceResult[1].exc = None =>
            /\ Len(ifaceResult[1].val) = 1
            /\ ifaceResult[1].val[1].tag = interfaceClassFor(thePub[1].render)
  /\ (capResult # <<>> /\ thePub[1].render \in DOMAIN CapabilityMakers) =>
       /\ capResult[1].exc # "KeyError"
       /\ \A i \in DOMAIN capResult[1].val :
            /\ interfacesIn(capResult[1].val[i]) # <<>>
            /\ interfacesIn(capResult[1].val[i])[1].tag =
                 interfaceClassFor(thePub[1].render)

\* an interface has been made for a renderer no interface maker is declared
\* for, and it is a VS.ParamHTTP with the parameters of the service
C13_Witness ==
  /\ ifaceResult # <<>>
  /\ thePub[1].render \notin DOMAIN InterfaceMakers
  /\ ifaceResult[1].exc = None
  /\ ifaceResult[1].val[1].tag = "VS.ParamHTTP"
  /\ \E i \in DOMAIN ifaceResult[1].val[1].kids :
       ifaceResult[1].val[1].kids[i].tag = "VS.param"


\* a record in the ivo_vor format has been built, or its build has raised
calledVOR == doc # <<>> /\ theFormat = "ivo_vor" /\ prevDoc = <<>>

\* the kind tag of the resource built: its resType meta when it has one,
\* and the resType attribute of the object only when it has none
kindTag ==
  IF "resType" \in DOMAIN theResob[1].meta
    THEN theResob[1].meta["resType"][1].content
    ELSE theResob[1].resType

\* C14: the record is built by the maker declared for the kind tag of the
\* resource: the resource element is of the class of this maker (the maker
\* of deleted resources makes none); a kind tag no maker is declared for
\* makes the build fail with the KeyError of the resolver.
C14_MakerOfTheKindTag ==
  calledVOR =>
    IF kindTag \notin DOMAIN ResourceMakers
      THEN doc[1].exc = "KeyError" /\ doc[1].val = <<>>
      ELSE /\ doc[1].exc # "KeyError"
           /\ doc[1].exc = None =>
                /\ \A r \in resourceNodes :
                     r.tag = ResourceMakers[kindTag].resourceClass
                /\ resourceNodes = {} <=> kindTag = "deleted"

\* a table definition, a table by its class, has been built as the
\* organization its resType meta declares
C14_Witness ==
  /\ calledVOR
  /\ doc[1].exc = None
  /\ theResob[1].resType = "table"
  /\ kindTag = "organization"
  /\ \E r \in resourceNodes : r.tag = "VOR.Organisation"


\* C15: the dependencies of an RD are asked for at most once in a process:
\* exactly the RDs that have them cached were asked for, once each, and
\* each RD has its own cache.
C15_DependenciesLoadedOnce ==
  \A rd \in RDs :
    /\ queries[rd] <= 1
    /\ queries[rd] = 1 <=> rd \in cached

\* a record of a resource of an RD has been built from the cached
\* dependencies of the RD, which were asked for once, after the
\* dependencies of another RD were cached as well
C15_Witness ==
  /\ calledVOR
  /\ doc[1].exc = None
  /\ loadsDependencies(theResob[1])
  /\ theResob[1].rd.sourceId \in cachedAtCall
  /\ cached = RDs
  /\ \A rd \in RDs : queries[rd] = 1


\* the texts of the coverage profiles of the resource built
profileTexts ==
  IF "coverage" \in DOMAIN theResob[1].meta
    THEN UNION { {v.content : v \in Range(iterMeta(c, "profile"))} :
                 c \in Range(theResob[1].meta["coverage"]) }
    ELSE {}

\* the resource has a coverage profile that does not parse
profileMalformed == \E text \in profileTexts : text \notin GoodSTCS \cup {""}

\* the resource built, had it no coverage profile at all
withoutProfile ==
  [theResob[1] EXCEPT !.meta =
    [k \in DOMAIN @ |->
      IF k = "coverage"
        THEN [i \in DOMAIN @[k] |->
               [@[k][i] EXCEPT !.meta = withoutKey(@, "profile")]]
        ELSE @[k]]]

\* what building the record of that resource returns or raises
builtWithoutProfile == getVOResourceElement(withoutProfile, theSetNames)

\* the kinds whose makers build the coverage
coverageKinds == {"dataService", "catalogService", "document", "table", "data"}

\* C17: a coverage profile that does not parse is, unless VALIDATING,
\* reported and left out, and the record is the one the resource would
\* have without the profile; when VALIDATING, the error of the parser
\* leaves the build.  Without a profile, or with an empty one, there is
\* neither a profile element nor an error, VALIDATING or not.
C17_BadProfileLeftOutOrRaised ==
  calledVOR =>
    IF profileMalformed
      THEN IF VALIDATING
             THEN kindTag \in coverageKinds =>
                    /\ doc[1].exc # None
                    /\ doc[1].exc \in {"STCSParseError", builtWithoutProfile.exc}
                    /\ builtWithoutProfile.exc = None =>
                         doc[1].exc = "STCSParseError"
             ELSE /\ doc[1].exc = builtWithoutProfile.exc
                  /\ doc[1].val = builtWithoutProfile.val
                  /\ (doc[1].exc = None /\ kindTag \in coverageKinds) =>
                       doc[1].reports = <<"Coverage profile bad">>
      ELSE /\ doc[1].exc # "STCSParseError"
           /\ doc[1].reports = <<>>
           /\ profileTexts \subseteq {""} =>
                \A i \in DOMAIN doc[1].val :
                  \A n \in nodesOf(doc[1].val[i]) :
                    n.tag # "STC.STCResourceProfile"

\* the build of a data service with a coverage profile that does not parse
\* has raised the error of the parser, VALIDATING being set
C17_Witness ==
  /\ calledVOR
  /\ VALIDATING
  /\ profileMalformed
  /\ kindTag = "dataService"
  /\ doc[1].exc = "STCSParseError"
  /\ builtWithoutProfile.exc = None

\* C18, as stated: a coverage profile that does not parse is always left
\* out and the rest of the record built and returned, VALIDATING or not.
C18_BadProfileAlwaysRecovered ==
  (calledVOR /\ profileMalformed) =>
    /\ doc[1].exc = builtWithoutProfile.exc
    /\ doc[1].val = builtWithoutProfile.val

\* C18: unless VALIDATING, a coverage profile that does not parse is left
\* out and the rest of the record is built and returned.
C18_BadProfileRecoveredUnlessValidating ==
  (calledVOR /\ profileMalformed /\ ~ VALIDATING) =>
    /\ doc[1].exc = builtWithoutProfile.exc
    /\ doc[1].val = builtWithoutProfile.val

\* a catalog service with a coverage profile that does not parse has been
\* built without it: the record has the rest of the coverage, and the
\* profile was reported
C18_Witness ==
  /\ calledVOR
  /\ ~ VALIDATING
  /\ profileMalformed
  /\ kindTag = "catalogService"
  /\ doc[1].exc = None
  /\ doc[1].reports = <<"Coverage profile bad">>
  /\ \E n \in nodesOf(doc[1].val[1]) : n.tag = "VS.coverage"
  /\ \A n \in nodesOf(doc[1].val[1]) : n.tag # "STC.STCResourceProfile"

\* the records of the list whose build raises for missing mandatory meta
lackingMeta == {i \in DOMAIN resobs : built(i).exc = "NoMetaKey"}

\* C19, as stated: when VALIDATING, missing mandatory meta of a record
\* makes the list build raise; only otherwise is it caught for the record,
\* reported, and the record left out.
C19_MissingMetaAbortsWhenValidating ==
  (listing \/ listPc = "raised") =>
    IF VALIDATING
      THEN lackingMeta # {} => listPc = "raised"
      ELSE /\ listPc # "raised"
           /\ \A i \in lackingMeta :
                <<i, "Cannot create registry record: meta missing">>
                  \in Range(errors)

\* C19: VALIDATING or not, missing mandatory meta leaves the build of the
\* single record as an exception, and is caught in a list build for the
\* record alone: it is reported, the record is left out, and the list
\* build goes on.
C19_MissingMetaCaughtPerRecord ==
  /\ listPc # "raised"
  /\ listing =>
       /\ \A i \in lackingMeta :
            <<i, "Cannot create registry record: meta missing">>
              \in Range(errors)
       /\ Len(recs[1].kids) = Len(resobs) - Cardinality(lackingMeta)
                                - Cardinality({i \in DOMAIN resobs :
                                    built(i).exc \notin {None, "NoMetaKey"}})
  /\ (calledVOR /\ theResob[1].cls = "ResRec"
        /\ kindTag \in {"nonTabularService", "dataService", "catalogService"}
        /\ ~ hasMeta(theResob[1], "sia.type")
        /\ \E i \in DOMAIN theResob[1].publications :
             /\ theResob[1].publications[i].render = "siap.xml"
             /\ ~ theResob[1].publications[i].auxiliary
             /\ theResob[1].publications[i].sets \cap theSetNames # {}) =>
       doc[1].exc = "NoMetaKey"

\* a list build has gone on, VALIDATING being set, after a record that
\* lacks mandatory meta: the record was reported and left out, and the
\* record after it is in the list
C19_Witness ==
  /\ listPc = "done"
  /\ VALIDATING
  /\ Len(resobs) = 2
  /\ lackingMeta = {1}
  /\ succeeded(2)
  /\ Len(recs[1].kids) = 1
  /\ errors = << <<1, "Cannot create registry record: meta missing">> >>


\* a row generator was run to its end on a resource
iterated(iterator) == rows # <<>> /\ theIterator = iterator

\* the generator gave no row, raised nothing and reported nothing
nothingPublished ==
  /\ rows[1].exc = None
  /\ rows[1].val = <<>>
  /\ rows[1].warnings = <<>>
  /\ rows[1].reports = <<>>

\* C11, as stated: iterSvcRecs and iterResRecs yield no row at all for a
\* resource with an empty publication list.
C11_NoPublicationsNoRows ==
  (/\ iterated("iterSvcRecs") \/ iterated("iterResRecs")
   /\ theResob[1].publications = <<>>)
  => rows[1].val = <<>>

\* C11, amended: iterSvcRecs yields no row at all for a service with an
\* empty publication list, and raises and reports nothing, whatever the
\* metadata of the service; iterResRecs does not look at the publications
\* and gives a resource record of a managed authority that validates and
\* builds its "resources" and "sets" rows with or without them.
C11_NoPublicationsNoServiceRows ==
  /\ (iterated("iterSvcRecs") /\ theResob[1].publications = <<>>)
       => nothingPublished
  /\ (/\ iterated("iterResRecs")
      /\ rows[1].exc = None
      /\ rows[1].warnings = <<>>)
       => /\ Len(rows[1].val) >= 2
          /\ rows[1].val[1][1] = "resources"
          /\ rows[1].val[2][1] = "sets"
          /\ rows[1].val[2][2].setName = "ivo_managed"

\* iterSvcRecs has run on a service without publications that validates
\* and is of a managed authority, and has not got as far as loading the
\* dependencies of its RD
C11_Witness ==
  /\ iterated("iterSvcRecs")
  /\ theResob[1].publications = <<>>
  /\ nothingPublished
  /\ validateStructure(theResob[1]).exc = None
  /\ netlocOf(getMetaText(theResob[1], "identifier", None))
       \in getManagedAuthorities
  /\ cached = {}


\* C16: when threads build resources of the same RD at the same time, the
\* dependencies of the RD are queried at most once in every interleaving.
C16_OneQueryInEveryInterleaving ==
  \A rd \in RDs : queries[rd] <= 1


\* the authority of the identifier of the resource the generator was run on
authority == netlocOf(getMetaText(theResob[1], "identifier", None))

\* the generator skipped the resource: no row, no exception, and the warning
skipped ==
  /\ rows[1].exc = None
  /\ rows[1].val = <<>>
  /\ rows[1].warnings = <<"Skipping publication of resource">>

checkedAuthority ==
  /\ rows # <<>>
  /\ validateStructure(theResob[1]).exc = None
  /\ getVOResourceElement(theResob[1], defaultSet).exc = None
  /\ theIterator = "iterSvcRecs" => theResob[1].publications # <<>>

stageOf(kid) ==
  CASE kid.tag \in {"VOR.validationLevel", "VOR.title", "VOR.shortName",
                    "VOR.identifier", "VOR.altIdentifier", "VOR.curation",
                    "VOR.content"} -> 1
    [] kid.tag = "VOR.rights" -> 2
    [] kid.tag \in CapabilityClasses -> 3
    [] kid.tag \in {"VOR.facility", "VOR.instrument", "VS.coverage"} -> 4
    [] kid.tag = "VS.tableset" -> 5
    [] OTHER -> 0

\* C22: the children of a catalog service resource come in the order of the
\* handler chain (base attributes and curation/content, rights,
\* capabilities, organizational and coverage metadata, table set), and the
\* dependencies of the RD are loaded before any of them is built: they are
\* loaded even when the build raises.
C22_ChildrenInHandlerChainOrder ==
  /\ (builtVOR /\ getResType(theResob[1]) = "catalogService") =>
       \A r \in resourceNodes :
         /\ \A i \in DOMAIN r.kids : stageOf(r.kids[i]) > 0
         /\ \A i, j \in DOMAIN r.kids :
              i < j => stageOf(r.kids[i]) <= stageOf(r.kids[j])
  /\ (calledVOR /\ getResType(theResob[1]) = "catalogService") =>
       theResob[1].rd.sourceId \in cached

\* a catalog service was built that has children of all five stages
C22_Witness ==
  /\ builtVOR
  /\ getResType(theResob[1]) = "catalogService"
  /\ \E r \in resourceNodes :
       \A stage \in 1..5 : \E i \in DOMAIN r.kids : stageOf(r.kids[i]) = stage


\* an interface made by TAPInterface: a TR.interface, which is a ParamHTTP
\* of role std, with the version of TAP
isTAPInterface(interface) ==
  /\ interface.tag = "TR.interface"
  /\ AttrOf(interface, "xsi_type") = "vs:ParamHTTP"
  /\ AttrOf(interface, "version") = TAP_VERSION

\* C23: the capability of a dali publication that is not auxiliary has the
\* interface of TAPInterface first, and after it the one of DALIInterface
\* if and only if "dali-interface-in-tap" is in the future configuration;
\* the capability of an auxiliary dali publication has exactly one
\* interface, the one of TAPInterface.
C23_TAPInterfaces ==
  (capResult # <<>> /\ thePub[1].render = "dali" /\ capResult[1].exc = None)
  => /\ Len(capResult[1].val) = 1
     /\ LET interfaces == interfacesIn(capResult[1].val[1])
        IN  /\ interfaces # <<>>
            /\ isTAPInterface(interfaces[1])
            /\ IF thePub[1].auxiliary
                    \/ "dali-interface-in-tap" \notin config.future
                 THEN Len(interfaces) = 1
                 ELSE /\ Len(interfaces) = 2
                      /\ interfaces[2].tag = "DaFut.daliInterface"

\* a dali publication that is not auxiliary got both interfaces
C23_Witness ==
  /\ capResult # <<>>
  /\ thePub[1].render = "dali"
  /\ ~ thePub[1].auxiliary
  /\ capResult[1].exc = None
  /\ Len(interfacesIn(capResult[1].val[1])) = 2


\* the lower-cased names of the tables the table set of the resource is
\* made of
namesGiven ==
  {getEffectiveTableName(theResob[1].tables[i]) : i \in DOMAIN theResob[1].tables}

\* the foreign key elements among the nodes of the record built
foreignKeyNodes ==
  {n \in nodesOf(doc[1].val[1]) : n.tag = "VS.foreignKey"}

\* the foreign keys of the tables given that lead out of the table set
keysLeadingOut ==
  {fk \in UNION {Range(theResob[1].tables[i].foreignKeys) :
                   i \in DOMAIN theResob[1].tables} :
     lower(fk.destTableName) \notin namesGiven}

\* C27: every foreign key element of a record built has a target table, and
\* it is the lower-cased name of one of the tables given for the table set;
\* no foreign key element targets the table of a foreign key that leads out
\* of the table set.
C27_ForeignKeysStayInTableSet ==
  builtVOR =>
    /\ \A n \in foreignKeyNodes :
         /\ textsOf(n, "VS.targetTable") # {}
         /\ textsOf(n, "VS.targetTable") \subseteq namesGiven
    /\ \A fk \in keysLeadingOut :
         \A n \in foreignKeyNodes :
           lower(fk.destTableName) \notin textsOf(n, "VS.targetTable")

\* a record was built of tables with a foreign key within the table set,
\* which has its element, and one that leads out of it
C27_Witness ==
  /\ builtVOR
  /\ foreignKeyNodes # {}
  /\ keysLeadingOut # {}


\* the access URL of a publication with the alias for its path and nothing
\* else changed: scheme, host and query string as they are
aliased(url) ==
  <<urlparse(url).scheme, "://", urlparse(url).netloc, "/",
    longToShort[localpartOf(urlparse(url).path)]>>
  \o (IF urlparse(url).query # <<>>
        THEN <<"?">> \o urlparse(url).query ELSE <<>>)

\* the URLs that end with the ? or & the original URL ends with, if it does:
\* the URL itself when it ends so already, and the URL with it appended
endingLike(url, original) ==
  IF original[Len(original)] \notin {"?", "&"}
    THEN {Join(url)}
    ELSE {Join(url \o <<original[Len(original)]>>)}
         \cup (IF url[Len(url)] = original[Len(original)]
                 THEN {Join(url)} ELSE {})

\* C29: the access URL of an interface is that of the publication, with
\* the alias as its path when the path has one: scheme, host and query
\* string are the same, and so is a trailing ? or &.
C29_AliasChangesOnlyThePath ==
  (ifaceResult # <<>> /\ ifaceResult[1].exc = None) =>
    \A text \in textsOf(ifaceResult[1].val[1], "VOR.accessURL") :
      IF localpartOf(urlparse(thePub[1].accessURL).path) \in DOMAIN longToShort
        THEN text \in endingLike(aliased(thePub[1].accessURL),
                        thePub[1].accessURL)
        ELSE text = Join(thePub[1].accessURL)


\* the publications of a service that get rows: those that are neither
\* auxiliary nor of a hidden renderer
listedPublications(service) ==
  SelectSeq(service.publications,
    LAMBDA pub : ~ pub.auxiliary /\ pub.render \notin HIDDEN_RENDERERS)

RECURSIVE rowsExpected(_)
\* per listed publication, in order: "interfaces", and "sets" once per set;
\* each with the renderer of the publication
rowsExpected(pubs) ==
  IF pubs = <<>> THEN <<>>
  ELSE << <<"interfaces", Head(pubs).render>> >>
       \o [i \in 1..Cardinality(Head(pubs).sets) |->
            <<"sets", Head(pubs).render>>]
       \o rowsExpected(Tail(pubs))

\* the table and the renderer of the rows of a generator that go to
\* dc.interfaces and dc.sets
interfaceAndSetRows(yielded) ==
  LET chosen == SelectSeq(yielded, LAMBDA row : row[1] \in {"interfaces", "sets"})
  IN  [i \in DOMAIN chosen |-> <<chosen[i][1], chosen[i][2].renderer>>]

\* the rows of a table
rowsFor(yielded, table) == SelectSeq(yielded, LAMBDA row : row[1] = table)

\* iterSvcRecs gave the rows of a service: it has publications and a base
\* record was made
publishedService ==
  /\ iterated("iterSvcRecs")
  /\ rows[1].exc = None
  /\ rows[1].val # <<>>

\* C24: the rows iterSvcRecs yields of a published service start with the
\* one "resources" row; then come, per publication that is neither
\* auxiliary nor of a hidden renderer, one "interfaces" row and one "sets"
\* row per set of the publication, and no other "interfaces" or "sets"
\* row; the rows after these are neither.
C24_RowsOfAPublishedService ==
  publishedService =>
    LET yielded == rows[1].val
        expected == rowsExpected(listedPublications(theResob[1]))
    IN  /\ yielded[1][1] = "resources"
        /\ Len(rowsFor(yielded, "resources")) = 1
        /\ Len(yielded) >= 1 + Len(expected)
        /\ interfaceAndSetRows(SubSeq(yielded, 2, 1 + Len(expected))) = expected
        /\ interfaceAndSetRows(yielded) = expected
        /\ \A pub \in Range(listedPublications(theResob[1])) :
             {row[2].setName : row \in {r \in Range(rowsFor(yielded, "sets")) :
                                           r[2].renderer = pub.render}}
               = pub.sets

\* iterSvcRecs has run on a service with a publication that gets rows, an
\* auxiliary publication and one of a hidden renderer
C24_Witness ==
  /\ publishedService
  /\ Len(theResob[1].publications) = 3
  /\ Len(listedPublications(theResob[1])) = 1
  /\ Len(rowsFor(rows[1].val, "interfaces")) = 1


\* C28: the rows of iterSvcRecs, iterResRecs and iterDataRecs are, when
\* all of them have been collected, what they were when they were yielded.
C28_RowsKeepTheirContent ==
  (rows # <<>> /\ rows[1].exc = None) => collected = rows[1].val


\* C21: when unpublish is requested, the record iterator of an RD yields
\* no row and does not update the timestamps of the TAP RD, for every RD of
\* the call; no makeData raises, and after makeData nothing that came from
\* the RD is in the service tables other than marked deleted.
C21_UnpublishYieldsNothing ==
  (update.pc # "idle" /\ update.unpublish) =>
    /\ update.yielded = 0
    /\ ~ update.tap
    /\ update.ex = None
    /\ update.pc = "bump" =>
         \A r \in connection :
           (r.sourceRD = rdAt.sourceId /\ r.table # "res_dependencies")
             => r.deleted

\* C21 witness: makeData has run with unpublish set on the RD with a service
\* and a table that TAP serves, which was published before.
C21_Witness ==
  /\ update.pc = "bump"
  /\ update.unpublish
  /\ update.rds[update.at] = "rdA"
  /\ \E r \in connection : r.sourceRD = "rdA" /\ r.table = "resources"
  /\ \E r \in update.durableAtCall :
       r.sourceRD = "rdA" /\ r.table = "resources" /\ ~ r.deleted


\* the rows dc.resources has for an RD
resourcesFrom(tableRows, sourceId) ==
  {r \in tableRows : r.table = "resources" /\ r.sourceRD = sourceId}

\* C25: when the deleted-identifiers updater of an RD runs after the RD was
\* imported, a row of the RD in dc.resources gets another record timestamp
\* if and only if its identifier is marked deleted now and was not when the
\* updater was created; the rows of identifiers deleted before and of
\* identifiers that are not deleted stay as they are.
C25_BumpsExactlyTheNewlyDeleted ==
  [][update.pc = "bump" =>
       \A r \in resourcesFrom(connection, rdAt.sourceId) :
         (r \notin connection') <=>
           (r.ivoid \in deletedRecords(connection, rdAt.sourceId)
              /\ r.ivoid \notin update.oldDeletedRecords)]_vars

\* C25 witness: the updater of an RD has run and was committed; it bumped
\* an identifier to the time of the call, and an identifier of the RD that
\* was deleted before has an older record timestamp.
C25_Witness ==
  /\ update.pc = "for"
  /\ update.committed # <<>>
  /\ update.toBump # {}
  /\ update.oldDeletedRecords # {}
  /\ \E r \in resourcesFrom(connection, update.rds[update.at - 1]) :
       r.ivoid \in update.toBump /\ r.deleted /\ r.recTimestamp = clock - 1
  /\ \E r \in resourcesFrom(connection, update.rds[update.at - 1]) :
       /\ r.ivoid \in update.oldDeletedRecords
       /\ r.deleted
       /\ r.recTimestamp < clock - 1


\* the id of the i-th RD of the list of the call
sourceIdAt(i) == sourceTokens[update.rds[i]].sourceId

\* the warnings base.ui was given
warned == SelectSeq(notified, LAMBDA n : n[1] = "warning")

\* the exceptions updateServiceList takes for an RD it cannot publish
MetaErrors == {"MetaValidationError", "NoMetaKey"}

\* C26: in updateServiceList, when the publication of an RD fails with
\* invalid meta structure or a missing meta key and onlyWarn is set, nothing
\* is raised, the warning for that RD is reported and the loop goes on:
\* every RD before the one the loop is at was committed or warned about, up
\* to the end of the list when the call returns.  Without onlyWarn the same
\* failure raises ReportableError at that RD with nothing reported, and any
\* other exception is reported as an error and raised as it is, in both
\* modes; what is raised ends the call at the RD that failed.
C26_WarnAndGoOnOrRaise ==
  update.pc # "idle" =>
    /\ (update.ex \in MetaErrors /\ update.onlyWarn) =>
         /\ update.pc # "raised"
         /\ update.raised = None
         /\ notified # <<>>
         /\ notified[Len(notified)] = <<"warning", sourceIdAt(update.at - 1)>>
    /\ (update.ex \in MetaErrors /\ ~ update.onlyWarn) =>
         /\ update.pc = "raised"
         /\ update.raised = "ReportableError"
         /\ notified = <<>>
    /\ update.ex \notin MetaErrors \cup {None} =>
         /\ update.pc = "raised"
         /\ update.raised = update.ex
         /\ notified # <<>>
         /\ notified[Len(notified)] = <<"error", sourceIdAt(update.at)>>
    /\ Len(update.committed) + Len(warned) = update.at - 1
    /\ update.pc = "returned" =>
         /\ update.at - 1 = Len(update.rds)
         /\ durable = connection
    /\ ~ update.onlyWarn => warned = <<>>

\* C26 witness: a call with onlyWarn has returned; the first RD of its list
\* has a service with invalid meta structure and was warned about, the
\* second was published and committed.
C26_Witness ==
  /\ update.pc = "returned"
  /\ update.onlyWarn
  /\ update.rds = <<"rdB", "rdA">>
  /\ notified = << <<"warning", "rdB">> >>
  /\ update.committed = <<"rdA">>
  /\ \E r \in durable : r.sourceRD = "rdA" /\ r.table = "resources"
                          /\ ~ r.deleted


\* the rows the service tables have for an RD
rowsFrom(tableRows, sourceId) == {r \in tableRows : r.sourceRD = sourceId}

\* C30: when the publication of an RD was aborted in a call of
\* updateServiceList, the committed service tables have for that RD what
\* they had when the call began: no commit of the call, of a later RD or the
\* last one, makes what was written for the aborted RD durable.
C30_AbortedRowsNeverDurable ==
  update.pc # "idle" =>
    \A sourceId \in update.aborted :
      rowsFrom(durable, sourceId) = rowsFrom(update.durableAtCall, sourceId)

====
